---- MODULE Spec2Model ----
(***************************************************************************)
(* Lucid Memory: the retrieval pipeline (LucidRetrieval.retrieve) over the *)
(* storage layer (LucidStorage), and the embedding-migration operations.   *)
(*                                                                         *)
(* Real numbers are fixed-point integers in thousandths ("milli"): 1000    *)
(* stands for 1.0.  Timestamps are milliseconds, as Date.now() gives them. *)
(***************************************************************************)
EXTENDS Integers, Sequences, FiniteSets, TLC

(***************************************************************************)
(* Bounds of the model.                                                    *)
(***************************************************************************)
\* Number of memory ids that storeMemory can hand out.
MaxMem == 2
\* Longest access history a memory may grow to.
MaxAccess == 2
\* Number of coarse clock jumps (of CoarseTick ms each) that may happen.
MaxCoarse == 1
\* Number of single-millisecond clock advances within one coarse period.
MaxFine == 1
\* Number of association rows that may exist at once.
MaxAssoc == 1
\* Number of visual memory ids that storeVisualMemory can hand out.
MaxVisual == 1
\* Largest maxResults a caller passes.
MaxLimit == 1
\* Number of other operations that may run while one retrieve call awaits
\* the embedder.
MaxInterleave == 1
\* Number of location ids that recordFileAccess can hand out.
MaxLoc == 3
\* Number of recordFileAccess calls that may run.
MaxRecord == 2
\* Number of pinLocation calls that may run.
MaxPin == 1
\* Number of applyFamiliarityDecay calls that may run.
MaxDecay == 2
\* Number of mergeLocations calls that may run.
MaxMerge == 1
\* Number of processPendingEmbeddings calls that may be suspended at once.
MaxBatch == 2
\* Largest batch size processPendingEmbeddings is called with directly.
MaxBatchSize == 2
\* Number of timer ticks the server may run.
MaxTick == 3
\* Number of tool requests the server may handle.
MaxRequest == 2
\* Number of memories in the stores computeSpreadingActivation is applied to.
MaxSpreadMem == 3
\* Number of associations in those stores.
MaxSpreadAssoc == 3
\* Largest stale threshold, in days, that a decay is called with.
MaxStaleDays == 2

(***************************************************************************)
(* Program constants.                                                      *)
(***************************************************************************)
\* One unit of the fixed-point representation: 1.0.
One == 1000
\* DEFAULT_CONFIG
DefaultMaxResults == 10
DefaultMinProbability == 100
DefaultNoise == 250
DefaultThreshold == 0
DefaultProbeWeight == 400
DefaultBaseLevelWeight == 300
DefaultSpreadingWeight == 300
\* Milliseconds per second, the divisor of computeBaseLevel.
MsPerSecond == 1000
\* A coarse clock jump: four seconds, in ms.
CoarseTick == 4 * MsPerSecond

(***************************************************************************)
(* Fixed-point arithmetic: the Math.* functions the ranking uses.          *)
(***************************************************************************)
Max(a, b) == IF a >= b THEN a ELSE b
Min(a, b) == IF a <= b THEN a ELSE b

\* Division rounding toward zero, as for IEEE quotients of either sign.
Quot(a, b) == IF a >= 0 THEN a \div b ELSE 0 - ((0 - a) \div b)

RECURSIVE SqrtSearch(_, _, _)
SqrtSearch(n, lo, hi) ==
    IF lo >= hi THEN lo
    ELSE LET mid == (lo + hi + 1) \div 2
         IN  IF mid * mid <= n THEN SqrtSearch(n, mid, hi)
             ELSE SqrtSearch(n, lo, mid - 1)

\* Math.sqrt on naturals: the integer square root.
ISqrt(n) == SqrtSearch(n, 0, Min(n, 46340))

\* Math.pow(x, -decay) for decay = 0.5 and x >= 1.0 given in milli:
\* 1/sqrt(x), in milli.
PowNegHalf(xMilli) == ISqrt((One * One * One) \div xMilli)

\* ln(2), in milli.
Ln2 == 693

\* ln of y in [1.0, 2.0), by the series 2*(z + z^3/3 + z^5/5 + z^7/7),
\* z = (y-1)/(y+1).
LnSeries(yMilli) ==
    LET z  == ((yMilli - One) * One) \div (yMilli + One)
        z2 == (z * z) \div One
        z3 == (z * z2) \div One
        z5 == (z3 * z2) \div One
        z7 == (z5 * z2) \div One
    IN  2 * z + (2 * z3) \div 3 + (2 * z5) \div 5 + (2 * z7) \div 7

RECURSIVE LnMilli(_)
\* Math.log of x > 0 given in milli, in milli.
LnMilli(xMilli) ==
    IF xMilli >= 2 * One THEN Ln2 + LnMilli(xMilli \div 2)
    ELSE IF xMilli < One THEN LnMilli(xMilli * 2) - Ln2
    ELSE LnSeries(xMilli)

\* e^n in milli for whole n in 0..6.
EPow(n) ==
    CASE n = 0 -> 1000
      [] n = 1 -> 2718
      [] n = 2 -> 7389
      [] n = 3 -> 20086
      [] n = 4 -> 54598
      [] n = 5 -> 148413
      [] OTHER -> 403429

\* e^f for f in [0, 1.0) in milli, by the Taylor series.
ExpFrac(f) ==
    LET t2 == (f * f) \div (2 * One)
        t3 == (t2 * f) \div (3 * One)
        t4 == (t3 * f) \div (4 * One)
        t5 == (t4 * f) \div (5 * One)
        t6 == (t5 * f) \div (6 * One)
    IN  One + f + t2 + t3 + t4 + t5 + t6

\* Largest exponent, in whole units, that ExpMilli evaluates; beyond it the
\* logistic is 0 or 1 to three decimals.
ExpRange == 7

\* Math.exp of x given in milli, in milli.
ExpMilli(xMilli) ==
    IF xMilli >= ExpRange * One THEN One * One
    ELSE IF xMilli <= 0 - ExpRange * One THEN 0
    ELSE LET n == xMilli \div One
             f == xMilli - n * One
         IN  IF n >= 0 THEN (EPow(n) * ExpFrac(f)) \div One
             ELSE (ExpFrac(f) * One) \div EPow(0 - n)


(***************************************************************************)
(* The store: LucidStorage's tables.                                       *)
(***************************************************************************)
VARIABLES
    clock,             \* Date.now(), in ms
    nextId,            \* next memory id storeMemory hands out
    memories,          \* id -> row of the memories table
    accessHistory,     \* id -> sequence of access timestamps (access_history)
    embeddings,        \* rows [memoryId, vector, model] of the embeddings table
    associations,      \* rows [sourceId, targetId, strength] of the associations table
    nextVisualId,      \* next visual memory id
    visualMemories,    \* set of visual memory ids
    visualEmbeddings,  \* rows [memoryId, vector, model] of visual_embeddings
    nextLocationId,    \* next location id recordFileAccess hands out
    locations,         \* id -> row of the locations table
    locationAssociations, \* rows [sourceId, targetId, strength] between locations
    budget,            \* how many recordFileAccess and decay calls have run
    server,            \* server.ts: where main is, its flags and its timers
    batch,             \* the processPendingEmbeddings call suspended at its await
    embedder,          \* LucidRetrieval.embedder: "none" or the model it tags with
    pc,                \* "idle", or "embed" while retrieve awaits embedder.embed
    call,              \* what the suspended retrieve call read before the await
    projects,          \* rows [id, path] of the projects table
    locationProject,   \* location id -> project id, for the locations recorded in a project
    ret                \* the last operation's return value, with what it read

storeVars  == <<nextId, memories, accessHistory, embeddings, associations>>
visualVars == <<nextVisualId, visualMemories, visualEmbeddings>>
locationVars == <<nextLocationId, locations, locationAssociations, budget>>
serverVars == <<server, batch>>
projectVars == <<projects, locationProject>>
vars == <<clock, nextId, memories, accessHistory, embeddings, associations,
          nextVisualId, visualMemories, visualEmbeddings, nextLocationId, locations,
          locationAssociations, budget, server, batch, embedder, pc, call, projects,
          locationProject, ret>>

Ids == 1..MaxMem
VisualIds == 1..MaxVisual
MemoryTypes == {"learning", "bug"}
ModelTags == {"nomic-embed-text", "bge-base-en-v1.5"}
\* What an embedder may produce, by the model it tags with: the two models
\* have different dimensions.
VectorsOf(model) == IF model = "nomic-embed-text" THEN {<<2>>} ELSE {<<1, 0>>, <<-3, 4>>}
\* The model of the provider the server detects.
ActiveModels == {"bge-base-en-v1.5"}
EmbeddingResults ==
    UNION {{[vector |-> v, model |-> m] : v \in VectorsOf(m)} : m \in ModelTags}
Strengths == {500, 900}

NoRet == [op |-> "none"]
NoCall == [active |-> FALSE, interleaved |-> 0]

\* An operation starts once the previous return value has been delivered, and
\* while a retrieve call is suspended only as the interleaving bound allows.
Ready == ret = NoRet /\ (call.active => call.interleaved < MaxInterleave)
\* The suspended call after one more interleaved operation.
Interleaved == IF call.active THEN [call EXCEPT !.interleaved = @ + 1] ELSE call

\* The function f without the keys in gone.
Without(f, gone) == [k \in DOMAIN f \ gone |-> f[k]]
\* The function f with key k set to v (inserted or replaced).
Upsert(f, k, v) == [x \in DOMAIN f \cup {k} |-> IF x = k THEN v ELSE f[x]]

\* No location call has run.
NoBudget == [records |-> 0, pins |-> 0, decays |-> 0, merges |-> 0]
\* No processPendingEmbeddings call is suspended.
NoBatch == <<>>
\* The server process when its module has been loaded: main has not run, the
\* provider is not detected, no timer is set, no tool request or timer tick
\* has been handled and no exception caught.
NoServer ==
    [main |-> "start", hasSemanticSearch |-> FALSE, provider |-> "unknown",
     timers |-> FALSE, requests |-> 0, ticks |-> 0, caught |-> 0, lastTick |-> "none"]

\* The text and visual tables, the embedder and the calls in flight, as
\* construction leaves them.
InitMemoryTables ==
    /\ nextId = 1
    /\ memories = <<>>
    /\ accessHistory = <<>>
    /\ embeddings = {}
    /\ associations = {}

InitOther ==
    /\ projects = {}
    /\ locationProject = <<>>
    /\ nextVisualId = 1
    /\ visualMemories = {}
    /\ visualEmbeddings = {}
    /\ embedder = "none"
    /\ pc = "idle"
    /\ call = NoCall
    /\ ret = NoRet
    /\ server = NoServer
    /\ batch = NoBatch

InitTables == InitMemoryTables /\ InitOther

Init ==
    /\ clock = 0
    /\ InitTables
    /\ nextLocationId = 1
    /\ locations = <<>>
    /\ locationAssociations = {}
    /\ budget = NoBudget

(***************************************************************************)
(* Time passes between operations.                                         *)
(***************************************************************************)
CanTickFine(t) == t % CoarseTick < MaxFine
CanTickCoarse(t) == t \div CoarseTick < MaxCoarse

Tick ==
    /\ Ready
    /\ CanTickCoarse(clock)
    /\ clock' = clock + CoarseTick
    /\ ret' = NoRet
    /\ call' = Interleaved
    /\ UNCHANGED <<storeVars, visualVars, projectVars, locationVars, serverVars, embedder, pc>>

(***************************************************************************)
(* LucidStorage: memories, access history, associations.                   *)
(***************************************************************************)
\* storeMemory: a new row with a fresh id; its creation is its first access.
StoreMemoryRow(type) == [type |-> type, accessCount |-> 1]

StoreMemory(type) ==
    /\ Ready
    /\ nextId <= MaxMem
    /\ memories' = Upsert(memories, nextId, StoreMemoryRow(type))
    /\ accessHistory' = Upsert(accessHistory, nextId, <<clock>>)
    /\ nextId' = nextId + 1
    /\ ret' = NoRet
    /\ call' = Interleaved
    /\ UNCHANGED <<clock, embeddings, associations, visualVars, projectVars, locationVars, serverVars, embedder, pc>>

\* A deleteMemory without the cascade to the embeddings table.
KeepMemoryEmbeddings(id) == embeddings

\* The tables after deleteMemory(id): the row, its access history, and by
\* cascade its embedding and every association it is an endpoint of.
DeleteMemoryEmbeddings(id) == {r \in embeddings : r.memoryId # id}
DeleteMemoryAssociations(id) ==
    {r \in associations : r.sourceId # id /\ r.targetId # id}

DeleteMemory(id) ==
    /\ Ready
    /\ id \in DOMAIN memories
    /\ memories' = Without(memories, {id})
    /\ accessHistory' = Without(accessHistory, {id})
    /\ embeddings' = DeleteMemoryEmbeddings(id)
    /\ associations' = DeleteMemoryAssociations(id)
    /\ ret' = NoRet
    /\ call' = Interleaved
    /\ UNCHANGED <<clock, nextId, visualVars, projectVars, locationVars, serverVars, embedder, pc>>

\* recordAccess(id) at time t: one more access_history row, and the row's
\* access counter.
RecordAccessRow(row) == [row EXCEPT !.accessCount = @ + 1]
RecordAccessHistory(hist, id, t) == [hist EXCEPT ![id] = Append(@, t)]
RecordAccessMemories(mems, id) == [mems EXCEPT ![id] = RecordAccessRow(@)]

\* An associate that inserts without replacing the pair's row.
InsertAssociationRow(rows, a, b, s) ==
    rows \cup {[sourceId |-> a, targetId |-> b, strength |-> s]}

\* associate(a, b, s): INSERT OR REPLACE on the ordered pair (a, b).
AssociateRows(rows, a, b, s) ==
    {r \in rows : ~(r.sourceId = a /\ r.targetId = b)}
    \cup {[sourceId |-> a, targetId |-> b, strength |-> s]}

Associate(a, b, s) ==
    /\ Ready
    /\ a \in DOMAIN memories /\ b \in DOMAIN memories /\ a # b
    /\ (\E r \in associations : r.sourceId = a /\ r.targetId = b)
           \/ Cardinality(associations) < MaxAssoc
    /\ associations' = AssociateRows(associations, a, b, s)
    /\ ret' = NoRet
    /\ call' = Interleaved
    /\ UNCHANGED <<clock, nextId, memories, accessHistory, embeddings, visualVars, projectVars, locationVars, serverVars,
                   embedder, pc>>

\* dissociate(a, b): the row of the ordered pair (a, b), if any, is deleted.
DissociateRows(rows, a, b) == {r \in rows : ~(r.sourceId = a /\ r.targetId = b)}

Dissociate(a, b) ==
    /\ Ready
    /\ associations' = DissociateRows(associations, a, b)
    /\ ret' = NoRet
    /\ call' = Interleaved
    /\ UNCHANGED <<clock, nextId, memories, accessHistory, embeddings, visualVars, projectVars, locationVars, serverVars,
                   embedder, pc>>

\* getAssociations(id): the rows in which id is the source or the target.
GetAssociations(rows, id) == {r \in rows : r.sourceId = id \/ r.targetId = id}

\* recordAccess(id), called on its own.
RecordAccess(id) ==
    /\ Ready
    /\ id \in DOMAIN memories
    /\ Len(accessHistory[id]) < MaxAccess
    /\ accessHistory' = RecordAccessHistory(accessHistory, id, clock)
    /\ memories' = RecordAccessMemories(memories, id)
    /\ ret' = NoRet
    /\ call' = Interleaved
    /\ UNCHANGED <<clock, nextId, embeddings, associations, visualVars, projectVars, locationVars, serverVars,
                   embedder, pc>>

(***************************************************************************)
(* LucidStorage: the embedding lifecycle, text and visual.                 *)
(***************************************************************************)
\* A storeEmbedding that inserts without replacing the owner's row.
InsertEmbeddingRow(rows, id, vector, model) ==
    rows \cup {[memoryId |-> id, vector |-> vector, model |-> model]}

\* storeEmbedding: INSERT OR REPLACE on the owner's row.
StoreEmbeddingRows(rows, id, vector, model) ==
    {r \in rows : r.memoryId # id}
    \cup {[memoryId |-> id, vector |-> vector, model |-> model]}

StoreEmbedding(id, vector, model) ==
    /\ Ready
    /\ id \in DOMAIN memories
    /\ embeddings' = StoreEmbeddingRows(embeddings, id, vector, model)
    /\ ret' = NoRet
    /\ call' = Interleaved
    /\ UNCHANGED <<clock, nextId, memories, accessHistory, associations, visualVars, projectVars, locationVars, serverVars,
                   embedder, pc>>

\* A selection with the comparison inverted: the rows whose model tag is equal.
Matching(rows, model) == {r \in rows : r.model = model}

\* The rows whose model tag differs.
NotMatching(rows, model) == {r \in rows : r.model # model}
\* countEmbeddingsNotMatching / countVisualEmbeddingsNotMatching
CountNotMatching(rows, model) == Cardinality(NotMatching(rows, model))
\* A delete without its WHERE clause: no row is left.
DeleteEveryRow(rows, model) == {}

\* The rows that deleteEmbeddingsNotMatching leaves.
DeleteNotMatchingRows(rows, model) == rows \ NotMatching(rows, model)
\* The owners of the rows.
Owners(rows) == {r.memoryId : r \in rows}

\* getEmbedding(id) is null
GetEmbeddingIsNull(rows, id) == id \notin Owners(rows)
\* getMemoriesWithoutEmbeddings, as a set (the limit aside).
MemoriesWithoutEmbeddings(mems, rows) == {id \in DOMAIN mems : GetEmbeddingIsNull(rows, id)}
\* getStats
MemoryCount(mems) == Cardinality(DOMAIN mems)
EmbeddingCount(rows) == Cardinality(rows)
PendingEmbeddingCount(mems, rows) == Cardinality(MemoriesWithoutEmbeddings(mems, rows))
\* getAllEmbeddings: the Map from memory id to vector.
GetAllEmbeddings(rows) ==
    [id \in Owners(rows) |-> (CHOOSE r \in rows : r.memoryId = id).vector]

DeleteEmbeddingsNotMatching(model) ==
    /\ Ready
    /\ embeddings' = DeleteNotMatchingRows(embeddings, model)
    /\ ret' = [op |-> "deleteEmbeddingsNotMatching", model |-> model,
               value |-> Cardinality(embeddings) - Cardinality(embeddings')]
    /\ call' = Interleaved
    /\ UNCHANGED <<clock, nextId, memories, accessHistory, associations, visualVars, projectVars, locationVars, serverVars,
                   embedder, pc>>

StoreVisualMemory ==
    /\ Ready
    /\ nextVisualId <= MaxVisual
    /\ visualMemories' = visualMemories \cup {nextVisualId}
    /\ nextVisualId' = nextVisualId + 1
    /\ ret' = NoRet
    /\ call' = Interleaved
    /\ UNCHANGED <<clock, storeVars, locationVars, serverVars, projectVars, visualEmbeddings, embedder, pc>>

StoreVisualEmbedding(id, vector, model) ==
    /\ Ready
    /\ id \in visualMemories
    /\ visualEmbeddings' = StoreEmbeddingRows(visualEmbeddings, id, vector, model)
    /\ ret' = NoRet
    /\ call' = Interleaved
    /\ UNCHANGED <<clock, storeVars, locationVars, serverVars, projectVars, nextVisualId, visualMemories, embedder, pc>>

DeleteVisualEmbeddingsNotMatching(model) ==
    /\ Ready
    /\ visualEmbeddings' = DeleteNotMatchingRows(visualEmbeddings, model)
    /\ ret' = [op |-> "deleteVisualEmbeddingsNotMatching", model |-> model,
               value |-> Cardinality(visualEmbeddings) - Cardinality(visualEmbeddings')]
    /\ call' = Interleaved
    /\ UNCHANGED <<clock, storeVars, locationVars, serverVars, projectVars, nextVisualId, visualMemories, embedder, pc>>

\* setEmbeddingConfig: the embedder, named by the model tag it produces.
SetEmbeddingConfig(model) ==
    /\ Ready
    /\ embedder' = model
    /\ ret' = NoRet
    /\ call' = Interleaved
    /\ UNCHANGED <<clock, storeVars, visualVars, projectVars, locationVars, serverVars, pc>>


(***************************************************************************)
(* LucidStorage: locations, their familiarity, decay and merging.          *)
(***************************************************************************)
LocationIds == 1..MaxLoc
Paths == {"old", "new", "lib"}
\* One day, in ms.
DayMs == 24 * 60 * 60 * MsPerSecond
\* 1/alpha of the familiarity curve, alpha = 0.1.
AlphaInverse == 10

\* familiarity(n) = 1 - 1/(1 + 0.1 n) = n/(n + 10), in milli.
FamiliarityCurve(n) == (One * n) \div (n + AlphaInverse)

\* The ids of the locations with the path (getLocationByPath).
LocationsAt(locs, path) == {id \in DOMAIN locs : locs[id].path = path}
LocationAt(locs, path) == CHOOSE id \in LocationsAt(locs, path) : TRUE

\* The row of a location that has been accessed n times, last at time now,
\* each access having left one context record.
LocationRow(path, n, now) ==
    [path |-> path, accessCount |-> n, familiarity |-> FamiliarityCurve(n),
     peak |-> FamiliarityCurve(n), lastAccessed |-> now, pinned |-> FALSE,
     contexts |-> n]

\* recordFileAccess on a known location: one more access and context, the
\* familiarity of the new count.
AccessedLocationRow(row, now) ==
    [row EXCEPT !.accessCount = @ + 1,
                !.familiarity = FamiliarityCurve(row.accessCount + 1),
                !.peak = Max(@, FamiliarityCurve(row.accessCount + 1)),
                !.lastAccessed = now,
                !.contexts = @ + 1]

\* The strength of the edge of the ordered pair (a, b), 0 when there is none.
StrengthOf(rows, a, b) ==
    IF \E r \in rows : r.sourceId = a /\ r.targetId = b
    THEN (CHOOSE r \in rows : r.sourceId = a /\ r.targetId = b).strength
    ELSE 0

\* The increments of a co-access, by (same task, same activity):
\* neither, and both.
CoAccessStrengths == {50, 200}
NoLink == [other |-> 0, strength |-> 0]

\* A co-access of a with b: the edge's strength grows by the increment, capped
\* at 1.0.
LinkRows(rows, a, b, strength) ==
    {r \in rows : ~(r.sourceId = a /\ r.targetId = b)}
    \cup {[sourceId |-> a, targetId |-> b,
           strength |-> Min(One, StrengthOf(rows, a, b) + strength)]}

\* recordFileAccess(path): the location is created at its first access; link
\* is the co-accessed location the store finds, if any.
RecordFileAccess(path, link) ==
    /\ Ready
    /\ budget.records < MaxRecord
    /\ LET known == LocationsAt(locations, path) # {}
           id == IF known THEN LocationAt(locations, path) ELSE nextLocationId
       IN  /\ known \/ nextLocationId <= MaxLoc
           /\ link = NoLink \/ (link.other \in DOMAIN locations /\ link.other # id)
           /\ locations' = Upsert(locations, id,
                                  IF known THEN AccessedLocationRow(locations[id], clock)
                                  ELSE LocationRow(path, 1, clock))
           /\ nextLocationId' = IF known THEN nextLocationId ELSE nextLocationId + 1
           /\ locationAssociations' =
                  IF link = NoLink THEN locationAssociations
                  ELSE LinkRows(locationAssociations, id, link.other, link.strength)
    /\ budget' = [budget EXCEPT !.records = @ + 1]
    /\ ret' = NoRet
    /\ call' = Interleaved
    /\ UNCHANGED <<clock, storeVars, visualVars, projectVars, serverVars, embedder, pc>>

\* The projectPath argument of a tool: none, or the path of a project.
NoProjectPath == ""
ProjectPaths == {"/a", "/b"}
\* The project_id of a location recorded outside of any project.
NoProject == 0

\* getOrCreateProject(path): the project of the path, inserted when the path
\* has none yet.
ProjectsAt(rows, path) == {r \in rows : r.path = path}
GetOrCreateProject(rows, path) ==
    IF ProjectsAt(rows, path) # {} THEN rows
    ELSE rows \cup {[id |-> Cardinality(rows) + 1, path |-> path]}

\* What `projectPath ? getOrCreateProject(projectPath).id : undefined` leaves
\* in the projects table, and the id it evaluates to.
ProjectsAfter(rows, projectPath) ==
    IF projectPath = NoProjectPath THEN rows ELSE GetOrCreateProject(rows, projectPath)
ProjectIdOf(rows, projectPath) ==
    IF projectPath = NoProjectPath THEN NoProject
    ELSE (CHOOSE r \in ProjectsAfter(rows, projectPath) : r.path = projectPath).id

\* The project a location was recorded in.
ScopeOf(scope, id) == IF id \in DOMAIN scope THEN scope[id] ELSE NoProject
\* getLocationByPath(path, projectId): the locations of the path in the project.
LocationsIn(locs, scope, path, projectId) ==
    {id \in LocationsAt(locs, path) : ScopeOf(scope, id) = projectId}

\* The location_record tool: the project of projectPath, then
\* recordFileAccess in that project.
LocationRecord(path, projectPath) ==
    /\ Ready
    /\ budget.records < MaxRecord
    /\ projects' = ProjectsAfter(projects, projectPath)
    /\ LET projectId == ProjectIdOf(projects, projectPath)
           found == LocationsIn(locations, locationProject, path, projectId)
           id == IF found # {} THEN CHOOSE x \in found : TRUE ELSE nextLocationId
       IN  /\ found # {} \/ nextLocationId <= MaxLoc
           /\ locations' = Upsert(locations, id,
                                  IF found # {} THEN AccessedLocationRow(locations[id], clock)
                                  ELSE LocationRow(path, 1, clock))
           /\ locationProject' = IF projectId = NoProject THEN locationProject
                                 ELSE Upsert(locationProject, id, projectId)
           /\ nextLocationId' = IF found # {} THEN nextLocationId ELSE nextLocationId + 1
           /\ ret' = [op |-> "location_record", path |-> path, projectPath |-> projectPath,
                      accessCount |-> locations'[id].accessCount]
    /\ budget' = [budget EXCEPT !.records = @ + 1]
    /\ call' = Interleaved
    /\ UNCHANGED <<clock, storeVars, visualVars, locationAssociations, serverVars, embedder,
                   pc>>

\* The location_get tool: the project of projectPath, then getLocationByPath.
LocationGet(path, projectPath) ==
    /\ Ready
    /\ projects' = ProjectsAfter(projects, projectPath)
    /\ LET found == LocationsIn(locations, locationProject, path,
                                ProjectIdOf(projects, projectPath))
       IN  ret' = [op |-> "location_get", path |-> path, projectPath |-> projectPath,
                   known |-> found # {},
                   accessCount |-> IF found = {} THEN 0
                                   ELSE locations[CHOOSE x \in found : TRUE].accessCount]
    /\ call' = Interleaved
    /\ UNCHANGED <<clock, storeVars, visualVars, locationVars, locationProject, serverVars,
                   embedder, pc>>

\* pinLocation(path, pinned)
PinLocation(path, pinned) ==
    /\ Ready
    /\ budget.pins < MaxPin
    /\ LocationsAt(locations, path) # {}
    /\ locations' = [locations EXCEPT ![LocationAt(locations, path)].pinned = pinned]
    /\ budget' = [budget EXCEPT !.pins = @ + 1]
    /\ ret' = NoRet
    /\ call' = Interleaved
    /\ UNCHANGED <<clock, storeVars, visualVars, projectVars, nextLocationId, locationAssociations,
                   serverVars, embedder, pc>>

\* The arguments of applyFamiliarityDecay that the location_decay tool passes.
DecayRate == 100
StickyThreshold == 800
BaseFloor == 100
StickyFloor == 400
DecayParams(staleThresholdDays) ==
    [decayRate |-> DecayRate, stickyThreshold |-> StickyThreshold,
     baseFloor |-> BaseFloor, stickyFloor |-> StickyFloor,
     staleThresholdDays |-> staleThresholdDays]

\* The floor of a location: the well-known floor once its familiarity has
\* exceeded the sticky threshold.
DecayFloor(row, params) ==
    IF row.peak > params.stickyThreshold THEN params.stickyFloor ELSE params.baseFloor

\* The location's last access is at least the stale threshold old.
IsStale(row, now, params) ==
    (now - row.lastAccessed) \div DayMs >= params.staleThresholdDays

\* A decay that does not exempt pinned locations.
DecayedRowPinnedToo(row, now, params) ==
    IF ~IsStale(row, now, params) THEN row
    ELSE [row EXCEPT !.familiarity =
              Max(DecayFloor(row, params), Quot(@ * (One - params.decayRate), One))]

\* One location after a decay pass.
DecayedRow(row, now, params) ==
    IF row.pinned \/ ~IsStale(row, now, params) THEN row
    ELSE [row EXCEPT !.familiarity =
              Max(DecayFloor(row, params), Quot(@ * (One - params.decayRate), One))]

DecayRows(locs, now, params) == [id \in DOMAIN locs |-> DecayedRow(locs[id], now, params)]

\* The number of locations whose familiarity differs.
ChangedCount(before, after) ==
    Cardinality({id \in DOMAIN before : before[id].familiarity # after[id].familiarity})

\* applyFamiliarityDecay(0.1, 0.8, 0.1, 0.4, staleThresholdDays)
ApplyFamiliarityDecay(staleThresholdDays) ==
    /\ Ready
    /\ budget.decays < MaxDecay
    /\ locations' = DecayRows(locations, clock, DecayParams(staleThresholdDays))
    /\ budget' = [budget EXCEPT !.decays = @ + 1]
    /\ ret' = [op |-> "applyFamiliarityDecay", staleThresholdDays |-> staleThresholdDays,
               value |-> ChangedCount(locations, locations')]
    /\ call' = Interleaved
    /\ UNCHANGED <<clock, storeVars, visualVars, projectVars, nextLocationId, locationAssociations,
                   serverVars, embedder, pc>>

\* A merge that keeps the new location's familiarity instead of the larger.
MergedRowKeepsNew(old, new) ==
    [new EXCEPT !.accessCount = old.accessCount + new.accessCount,
                !.peak = Max(old.peak, new.peak),
                !.lastAccessed = Max(old.lastAccessed, new.lastAccessed),
                !.contexts = old.contexts + new.contexts]

\* mergeLocations, both known: the new location with the old one's knowledge
\* added.
MergedRow(old, new) ==
    [new EXCEPT !.accessCount = old.accessCount + new.accessCount,
                !.familiarity = Max(old.familiarity, new.familiarity),
                !.peak = Max(old.peak, new.peak),
                !.lastAccessed = Max(old.lastAccessed, new.lastAccessed),
                !.contexts = old.contexts + new.contexts]

\* An edge with the endpoint from replaced by to.
Repoint(r, from, to) ==
    [r EXCEPT !.sourceId = IF @ = from THEN to ELSE @,
              !.targetId = IF @ = from THEN to ELSE @]

\* mergeLocations, both known: the old location's edges move to the new one;
\* where both had an edge of the same pair the strengths add, capped at 1.0;
\* the edges between the two go with the old location.
MergeAssociationRows(rows, from, to) ==
    LET kept  == {r \in rows : r.sourceId # from /\ r.targetId # from}
        moved == {q \in {Repoint(r, from, to) :
                            r \in {x \in rows : x.sourceId = from \/ x.targetId = from}} :
                     q.sourceId # q.targetId}
        pairs == {<<r.sourceId, r.targetId>> : r \in kept \cup moved}
    IN  {[sourceId |-> p[1], targetId |-> p[2],
          strength |-> Min(One, StrengthOf(kept, p[1], p[2])
                                + StrengthOf(moved, p[1], p[2]))] : p \in pairs}

\* mergeLocations(oldPath, newPath); the value is the id of the location
\* returned, Absent for nothing.
MergeLocations(oldPath, newPath) ==
    /\ Ready
    /\ oldPath # newPath
    /\ budget.merges < MaxMerge
    /\ budget' = [budget EXCEPT !.merges = @ + 1]
    /\ LET hasOld == LocationsAt(locations, oldPath) # {}
           hasNew == LocationsAt(locations, newPath) # {}
       IN  IF hasOld /\ hasNew
           THEN LET old == LocationAt(locations, oldPath)
                    new == LocationAt(locations, newPath)
                IN  /\ locations' = [id \in DOMAIN locations \ {old} |->
                                        IF id = new
                                        THEN MergedRow(locations[old], locations[new])
                                        ELSE locations[id]]
                    /\ locationAssociations'
                           = MergeAssociationRows(locationAssociations, old, new)
                    /\ ret' = [op |-> "mergeLocations", oldPath |-> oldPath,
                               newPath |-> newPath, value |-> new]
           ELSE IF hasOld
           THEN LET old == LocationAt(locations, oldPath)
                IN  /\ locations' = [locations EXCEPT ![old].path = newPath]
                    /\ ret' = [op |-> "mergeLocations", oldPath |-> oldPath,
                               newPath |-> newPath, value |-> old]
                    /\ UNCHANGED locationAssociations
           ELSE /\ ret' = [op |-> "mergeLocations", oldPath |-> oldPath,
                           newPath |-> newPath,
                           value |-> IF hasNew THEN LocationAt(locations, newPath)
                                     ELSE 0]
                /\ UNCHANGED <<locations, locationAssociations>>
    /\ call' = Interleaved
    /\ UNCHANGED <<clock, storeVars, visualVars, projectVars, nextLocationId, serverVars, embedder, pc>>

\* The row after k decay passes with the stale threshold of one day.
RECURSIVE DecayedTimes(_, _, _)
DecayedTimes(row, now, k) ==
    IF k = 0 THEN row ELSE DecayedTimes(DecayedRow(row, now, DecayParams(1)), now, k - 1)

\* Stores in which the location calls have run before: up to three locations,
\* accessed 2 or 45 times each, the last time a day ago, and
\* edges to the third from the first two, each grown by three co-accesses
\* of the largest increment; since then, no decay pass or six of them.
SeedCounts == {2, 45}
SeedStrengths == {600}
SeedDecays == {0, 6}
SeedLocations ==
    {<<>>} \cup [1..1 -> SeedCounts] \cup [1..2 -> SeedCounts] \cup [1..3 -> SeedCounts]
SeedPath(i) == IF i = 1 THEN "old" ELSE IF i = 2 THEN "new" ELSE "lib"
SeedEdges(n) ==
    IF n < 3 THEN {{}}
    ELSE {{[sourceId |-> i, targetId |-> 3, strength |-> e[i]] :
              i \in {j \in 1..2 : e[j] # 0}} : e \in [1..2 -> SeedStrengths \cup {0}]}

InitLocations(decays) ==
    /\ clock = DayMs
    /\ InitTables
    /\ budget = NoBudget
    /\ \E counts \in SeedLocations, k \in decays :
           /\ nextLocationId = Len(counts) + 1
           /\ locations = [i \in 1..Len(counts) |->
                              DecayedTimes(LocationRow(SeedPath(i), counts[i], 0), DayMs, k)]
           /\ locationAssociations \in SeedEdges(Len(counts))

\* Stores of young locations: up to three, accessed once or twice each, the
\* last time a day ago, no decay pass run since and no edges.
YoungCounts == {1, 2}
YoungLocations ==
    {<<>>} \cup [1..1 -> YoungCounts] \cup [1..2 -> YoungCounts] \cup [1..3 -> YoungCounts]

InitYoungLocations ==
    /\ clock = DayMs
    /\ InitTables
    /\ budget = NoBudget
    /\ \E counts \in YoungLocations :
           /\ nextLocationId = Len(counts) + 1
           /\ locations = [i \in 1..Len(counts) |-> LocationRow(SeedPath(i), counts[i], 0)]
    /\ locationAssociations = {}

(***************************************************************************)
(* The kernels of retrieval.                                               *)
(***************************************************************************)
RECURSIVE Dot(_, _, _)
Dot(a, b, i) == IF i > Len(a) THEN 0 ELSE a[i] * b[i] + Dot(a, b, i + 1)

\* cosineSimilarity raises on vectors of different dimensions.
CosineThrows(a, b) == Len(a) # Len(b)

\* cosineSimilarity(a, b) in milli: dot/(|a||b|), 0 for a zero vector,
\* clamped to [-1, 1].
CosineSimilarity(a, b) ==
    LET norms == ISqrt(Dot(a, a, 1) * Dot(b, b, 1))
    IN  IF norms = 0 THEN 0
        ELSE Max(0 - One, Min(One, Quot(Dot(a, b, 1) * One, norms)))

\* Math.pow(similarity, 3)
Cube(x) == Quot(x * x * x, One * One)

RECURSIVE SumPow(_, _, _)
\* The loop of computeBaseLevel over accessTimesMs[i..].
SumPow(accessTimesMs, currentTimeMs, i) ==
    IF i > Len(accessTimesMs) THEN 0
    ELSE LET timeSinceSeconds ==
                 Max(One, Quot((currentTimeMs - accessTimesMs[i]) * One, MsPerSecond))
         IN  PowNegHalf(timeSinceSeconds) + SumPow(accessTimesMs, currentTimeMs, i + 1)

\* computeBaseLevel with decay = DEFAULT_CONFIG.decay = 0.5
ComputeBaseLevel(accessTimesMs, currentTimeMs) ==
    IF Len(accessTimesMs) = 0 THEN 0
    ELSE LnMilli(SumPow(accessTimesMs, currentTimeMs, 1))

\* retrievalProbability
RetrievalProbability(activation, threshold, noise) ==
    LET exponent == Quot((threshold - activation) * One, noise)
    IN  (One * One) \div (One + ExpMilli(exponent))

\* The associations involving memoryId.
Relevant(memoryId, allAssociations) ==
    {a \in allAssociations : a.sourceId = memoryId \/ a.targetId = memoryId}

OtherId(assoc, memoryId) ==
    IF assoc.sourceId = memoryId THEN assoc.targetId ELSE assoc.sourceId

RECURSIVE TotalSpread(_, _, _, _)
TotalSpread(relevant, memoryId, embs, probeVector) ==
    IF relevant = {} THEN 0
    ELSE LET assoc == CHOOSE a \in relevant : TRUE
             otherId == OtherId(assoc, memoryId)
             here == IF otherId \notin DOMAIN embs THEN 0
                     ELSE Quot(assoc.strength
                               * Max(0, CosineSimilarity(probeVector, embs[otherId])),
                               One)
         IN  here + TotalSpread(relevant \ {assoc}, memoryId, embs, probeVector)

\* The sum over the associations, not divided by their number.
ComputeSpreadingSum(memoryId, allAssociations, embs, probeVector) ==
    TotalSpread(Relevant(memoryId, allAssociations), memoryId, embs, probeVector)

\* computeSpreadingActivation
ComputeSpreadingActivation(memoryId, allAssociations, embs, probeVector) ==
    LET relevant == Relevant(memoryId, allAssociations)
    IN  IF relevant = {} THEN 0
        ELSE Quot(TotalSpread(relevant, memoryId, embs, probeVector),
                  Cardinality(relevant))

\* computeSpreadingActivation raises when a neighbour's embedding has another
\* dimension than the probe.
SpreadingThrows(memoryId, allAssociations, embs, probeVector) ==
    \E assoc \in Relevant(memoryId, allAssociations) :
        /\ OtherId(assoc, memoryId) \in DOMAIN embs
        /\ CosineThrows(probeVector, embs[OtherId(assoc, memoryId)])

(***************************************************************************)
(* computeSpreadingActivation applied to stores with several associations. *)
(***************************************************************************)
SpreadIds == 1..MaxSpreadMem
\* The embeddings a stored memory may have: none, or one of either model,
\* the zero vector included.
SpreadVectors == {<<>>, <<1, 0>>, <<-3, 4>>, <<0, 0>>, <<2>>}
SpreadProbes == {<<1, 0>>, <<-3, 4>>}
\* Every association the store can hold between two of the memories.
SpreadEdges ==
    {e \in [sourceId : SpreadIds, targetId : SpreadIds, strength : Strengths] :
        e.sourceId # e.targetId}
\* The association tables: at most one edge per ordered pair.
SpreadTables ==
    {E \in SUBSET SpreadEdges :
        /\ Cardinality(E) <= MaxSpreadAssoc
        /\ \A r, q \in E : (r.sourceId = q.sourceId /\ r.targetId = q.targetId) => r = q}

\* A store that storeMemory, storeEmbedding and associate calls have filled.
InitSpreading ==
    /\ clock = 0
    /\ InitOther
    /\ nextId = MaxSpreadMem + 1
    /\ memories = [id \in SpreadIds |-> StoreMemoryRow("learning")]
    /\ accessHistory = [id \in SpreadIds |-> <<0>>]
    /\ \E has \in [SpreadIds -> SpreadVectors] :
           embeddings = {[memoryId |-> id, vector |-> has[id],
                          model |-> IF Len(has[id]) = 1 THEN "nomic-embed-text"
                                    ELSE "bge-base-en-v1.5"] :
                            id \in {x \in SpreadIds : has[x] # <<>>}}
    /\ associations \in SpreadTables
    /\ nextLocationId = 1
    /\ locations = <<>>
    /\ locationAssociations = {}
    /\ budget = NoBudget

\* computeSpreadingActivation(memoryId, associations, embeddings, probeVector)
\* on what getAllAssociations and getAllEmbeddings return.
Spreading(memoryId, probeVector) ==
    /\ Ready
    /\ LET embs == GetAllEmbeddings(embeddings)
       IN  ret' = IF SpreadingThrows(memoryId, associations, embs, probeVector)
                  THEN [op |-> "computeSpreadingActivation", status |-> "error",
                        memoryId |-> memoryId, probeVector |-> probeVector]
                  ELSE [op |-> "computeSpreadingActivation", status |-> "ok",
                        memoryId |-> memoryId, probeVector |-> probeVector,
                        value |-> ComputeSpreadingActivation(memoryId, associations,
                                                             embs, probeVector)]
    /\ UNCHANGED <<clock, storeVars, visualVars, projectVars, locationVars, serverVars, embedder, pc,
                   call>>


(***************************************************************************)
(* LucidRetrieval.retrieve                                                 *)
(***************************************************************************)
Absent == 0
\* The options a caller passes: Partial<RetrievalConfig> and filterType.
NoOptions ==
    [maxResults |-> Absent, limit |-> Absent, minProbability |-> Absent,
     filterType |-> "any"]
OptionSets ==
    {NoOptions}
    \cup {[NoOptions EXCEPT !.maxResults = n] : n \in 1..MaxLimit}
    \cup {[NoOptions EXCEPT !.minProbability = One \div 2]}
    \cup {[NoOptions EXCEPT !.filterType = "bug"]}
\* Calls that pass the legacy option limit and no maxResults.
LegacyOptionSets == {[NoOptions EXCEPT !.limit = n] : n \in 1..MaxLimit}

\* config = { ...DEFAULT_CONFIG, ...options }
ConfigOf(options) ==
    [maxResults |-> IF options.maxResults = Absent THEN DefaultMaxResults
                    ELSE options.maxResults,
     limit |-> options.limit,
     minProbability |-> IF options.minProbability = Absent THEN DefaultMinProbability
                        ELSE options.minProbability,
     threshold |-> DefaultThreshold,
     noise |-> DefaultNoise,
     probeWeight |-> DefaultProbeWeight,
     baseLevelWeight |-> DefaultBaseLevelWeight,
     spreadingWeight |-> DefaultSpreadingWeight]

\* limit = config.maxResults ?? config.limit ?? 10
LimitOf(config) ==
    IF config.maxResults # Absent THEN config.maxResults
    ELSE IF config.limit # Absent THEN config.limit
    ELSE DefaultMaxResults

\* What store() was given for the memory that got the id, and never changes:
\* the emotional weight (the first memory has the default 0.5) and the number
\* of characters of the gist (150 is the longest generateGist makes).
EmotionalWeight(id) == IF id = 1 THEN One \div 2 ELSE (9 * One) \div 10
GistChars(id) == IF id = 1 THEN 150 ELSE 60

\* The orders in which a query may return the rows with the keys in S.
RowOrders(S) ==
    {o \in [1..Cardinality(S) -> S] : \A i, j \in 1..Cardinality(S) : o[i] = o[j] => i = j}

\* getAllForRetrieval: the memories, in the order the store returns them, and
\* their access histories in parallel.
GetAllForRetrieval(order) ==
    [memories |-> [i \in 1..Len(order) |->
                      [id |-> order[i], type |-> memories[order[i]].type,
                       accessCount |-> memories[order[i]].accessCount,
                       emotionalWeight |-> EmotionalWeight(order[i]),
                       gist |-> GistChars(order[i])]],
     accessHistories |-> [i \in 1..Len(order) |-> accessHistory[order[i]]]]

\* The indexes of filteredMemories within memories, in order.
RECURSIVE FilteredIndexes(_, _, _)
FilteredIndexes(mems, filterType, i) ==
    IF i > Len(mems) THEN <<>>
    ELSE (IF filterType = "any" \/ mems[i].type = filterType THEN <<i>> ELSE <<>>)
         \o FilteredIndexes(mems, filterType, i + 1)

\* Array.prototype.sort((a, b) => b.score - a.score): stable, so candidates
\* of equal score keep the order they had.
RECURSIVE InsertByScore(_, _)
InsertByScore(sorted, c) ==
    IF sorted = <<>> THEN <<c>>
    ELSE IF sorted[Len(sorted)].score >= c.score THEN Append(sorted, c)
    ELSE Append(InsertByScore(SubSeq(sorted, 1, Len(sorted) - 1), c), sorted[Len(sorted)])

RECURSIVE SortByScore(_, _)
SortByScore(cands, i) ==
    IF i = 0 THEN <<>>
    ELSE InsertByScore(SortByScore(cands, i - 1), cands[i])

\* A slice that keeps one candidate more than the limit.
SliceOneMore(s, limit) == SubSeq(s, 1, Min(limit + 1, Len(s)))

\* candidates.slice(0, limit)
Slice(s, limit) == SubSeq(s, 1, Min(limit, Len(s)))

\* The candidate of the no-embedder branch for the memory at index i.
FallbackCandidate(data, i, now, config) ==
    LET baseLevel == ComputeBaseLevel(data.accessHistories[i], now)
    IN  [memory |-> data.memories[i],
         score |-> baseLevel,
         similarity |-> 0,
         baseLevel |-> baseLevel,
         spreading |-> 0,
         probability |-> RetrievalProbability(baseLevel, config.threshold, config.noise)]

\* candidates.sort(...) followed by candidates.slice(0, limit)
Ranked(candidates, limit) == Slice(SortByScore(candidates, Len(candidates)), limit)

\* The candidates of the no-embedder branch: one for every filtered memory.
FallbackCandidates(data, filterType, now, config) ==
    LET idx == FilteredIndexes(data.memories, filterType, 1)
    IN  [k \in 1..Len(idx) |-> FallbackCandidate(data, idx[k], now, config)]

\* The candidate the scoring loop computes for the memory at index i.
ScoredCandidate(data, i, allAssociations, embs, probeVector, now, config) ==
    LET memory == data.memories[i]
        similarity == CosineSimilarity(probeVector, embs[memory.id])
        probeActivation == Cube(similarity)
        baseLevel == ComputeBaseLevel(data.accessHistories[i], now)
        spreading == ComputeSpreadingActivation(memory.id, allAssociations, embs, probeVector)
        score == Quot(config.probeWeight * probeActivation
                      + config.baseLevelWeight * baseLevel
                      + config.spreadingWeight * spreading, One)
    IN  [memory |-> memory,
         score |-> score,
         similarity |-> similarity,
         baseLevel |-> baseLevel,
         spreading |-> spreading,
         probability |-> RetrievalProbability(score, config.threshold, config.noise)]

\* The scoring loop over idx[k..]: memories without an embedding are skipped,
\* candidates below minProbability are not pushed.
RECURSIVE ScoreLoop(_, _, _, _, _, _, _, _)
ScoreLoop(data, idx, k, allAssociations, embs, probeVector, now, config) ==
    IF k > Len(idx) THEN <<>>
    ELSE LET rest == ScoreLoop(data, idx, k + 1, allAssociations, embs, probeVector,
                               now, config)
         IN  IF data.memories[idx[k]].id \notin DOMAIN embs THEN rest
             ELSE LET c == ScoredCandidate(data, idx[k], allAssociations, embs,
                                           probeVector, now, config)
                  IN  IF c.probability >= config.minProbability THEN <<c>> \o rest
                      ELSE rest

\* The scoring loop raises when it meets an embedding of another dimension.
ScoreLoopThrows(data, filterType, allAssociations, embs, probeVector) ==
    LET idx == FilteredIndexes(data.memories, filterType, 1)
    IN  \E k \in 1..Len(idx) :
            LET id == data.memories[idx[k]].id
            IN  /\ id \in DOMAIN embs
                /\ \/ CosineThrows(probeVector, embs[id])
                   \/ SpreadingThrows(id, allAssociations, embs, probeVector)

\* The candidates that pass the filter, before sort and slice.
SimilarityCandidates(data, filterType, allAssociations, embs, probeVector, now, config) ==
    ScoreLoop(data, FilteredIndexes(data.memories, filterType, 1), 1,
              allAssociations, embs, probeVector, now, config)


\* The value of a retrieve call that returned, with the arguments it had and
\* the local variables it computed.
Returned(mode, results, candidates, options, order, probeVector, entry, now) ==
    [op |-> "retrieve", status |-> "ok", mode |-> mode, embedRejected |-> FALSE,
     results |-> results, candidates |-> candidates, options |-> options,
     order |-> order, probeVector |-> probeVector, entry |-> entry, now |-> now]

\* The outcome of a retrieve call that rejected.
Rejected(embedRejected) ==
    [op |-> "retrieve", status |-> "error", mode |-> "similarity",
     embedRejected |-> embedRejected]

\* retrieve with no embedder: the whole call is synchronous.  It returns the
\* candidates and records no access.
RetrieveFallback(options, order) ==
    /\ ret = NoRet
    /\ pc = "idle"
    /\ embedder = "none"
    /\ LET data == GetAllForRetrieval(order)
           config == ConfigOf(options)
           now == clock
       IN  \E candidates \in {FallbackCandidates(data, options.filterType, now, config)} :
           ret' = Returned("fallback", Ranked(candidates, LimitOf(config)), candidates,
                           options, order, <<>>, clock, now)
    /\ UNCHANGED <<clock, storeVars, visualVars, projectVars, locationVars, serverVars, embedder, pc, call>>

\* retrieve with an embedder, up to `await this.embedder.embed(query)`: the
\* memories, access histories and associations are read before the await.
\* (The options are arguments the call never changes; they are drawn where
\* they are first used to compute, in RetrieveResume.)
RetrieveCall(order) ==
    /\ ret = NoRet
    /\ pc = "idle"
    /\ embedder # "none"
    /\ pc' = "embed"
    /\ call' = [active |-> TRUE, interleaved |-> 0, order |-> order,
                data |-> GetAllForRetrieval(order),
                associations |-> associations, entry |-> clock]
    /\ ret' = NoRet
    /\ UNCHANGED <<clock, storeVars, visualVars, projectVars, locationVars, serverVars, embedder>>

\* embedder.embed rejects (provider error or timeout): nothing catches it, so
\* retrieve rejects.
EmbedFails ==
    /\ ret = NoRet
    /\ pc = "embed"
    /\ pc' = "idle"
    /\ call' = NoCall
    /\ ret' = Rejected(TRUE)
    /\ UNCHANGED <<clock, storeVars, visualVars, projectVars, locationVars, serverVars, embedder>>

\* The timestamps the store gives the n recordAccess calls of one retrieve:
\* each call reads the clock itself, which may advance after the k-th.
AccessTimes(n, k, now) == [i \in 1..n |-> IF i <= k THEN now ELSE now + 1]

RECURSIVE RecordAllButLast(_, _, _, _)
\* A loop that stops one result too early: the last result gets no record.
RecordAllButLast(hist, results, times, i) ==
    IF i >= Len(results) THEN hist
    ELSE LET id == results[i].memory.id
         IN  RecordAllButLast(IF id \in DOMAIN hist
                              THEN RecordAccessHistory(hist, id, times[i]) ELSE hist,
                              results, times, i + 1)

RECURSIVE RecordAll(_, _, _, _)
\* The access histories after recordAccess on results[i..].
RecordAll(hist, results, times, i) ==
    IF i > Len(results) THEN hist
    ELSE LET id == results[i].memory.id
         IN  RecordAll(IF id \in DOMAIN hist THEN RecordAccessHistory(hist, id, times[i])
                       ELSE hist,
                       results, times, i + 1)

RECURSIVE CountAllButFirst(_, _, _)
\* A loop that starts one result too late: the first result's counter is not
\* advanced.
CountAllButFirst(mems, results, i) ==
    IF i > Len(results) THEN mems
    ELSE LET id == results[i].memory.id
         IN  CountAllButFirst(IF i > 1 /\ id \in DOMAIN mems
                              THEN RecordAccessMemories(mems, id) ELSE mems,
                              results, i + 1)

RECURSIVE CountAll(_, _, _)
\* The memories rows after recordAccess on results[i..].
CountAll(mems, results, i) ==
    IF i > Len(results) THEN mems
    ELSE LET id == results[i].memory.id
         IN  CountAll(IF id \in DOMAIN mems THEN RecordAccessMemories(mems, id) ELSE mems,
                      results, i + 1)

\* retrieve after the await, embed having produced probeVector: read the
\* embeddings, take `now`, score, sort, slice, and record an access for each
\* returned memory.
RetrieveResume(options, probeVector) ==
    /\ ret = NoRet
    /\ pc = "embed"
    /\ pc' = "idle"
    /\ call' = NoCall
    /\ LET config == ConfigOf(options)
           embs == GetAllEmbeddings(embeddings)
           now == clock
       IN  IF ScoreLoopThrows(call.data, options.filterType, call.associations,
                              embs, probeVector)
           THEN /\ ret' = Rejected(FALSE)
                /\ UNCHANGED <<clock, memories, accessHistory>>
           ELSE \E candidates \in {SimilarityCandidates(call.data, options.filterType,
                                                        call.associations, embs,
                                                        probeVector, now, config)} :
                \E results \in {Ranked(candidates, LimitOf(config))} :
                \E k \in 0..Len(results) :
                LET n == Len(results)
                    times == AccessTimes(n, k, now)
                IN  /\ k < n => CanTickFine(now)
                    /\ \A i \in 1..n :
                           results[i].memory.id \in DOMAIN accessHistory
                               => Len(accessHistory[results[i].memory.id]) < MaxAccess
                    /\ accessHistory' = RecordAll(accessHistory, results, times, 1)
                    /\ memories' = CountAll(memories, results, 1)
                    /\ clock' = IF k < n THEN now + 1 ELSE now
                    /\ ret' = Returned("similarity", results, candidates, options,
                                       call.order, probeVector, call.entry, now)
    /\ UNCHANGED <<nextId, embeddings, associations, visualVars, projectVars, locationVars, serverVars, embedder>>

\* The caller takes the return value of the operation that just completed.
Return ==
    /\ ret # NoRet
    /\ ret' = NoRet
    /\ UNCHANGED <<clock, storeVars, visualVars, projectVars, locationVars, serverVars, embedder, pc,
                   call>>

(***************************************************************************)
(* LucidRetrieval.getContext                                               *)
(***************************************************************************)
\* An option the caller left out.
Undefined == 0 - 1
DefaultTokenBudget == 300
DefaultMinSimilarity == (3 * One) \div 10
NoContextOptions == [tokenBudget |-> Undefined, minSimilarity |-> Undefined]
ContextOptionSets ==
    {NoContextOptions}
    \cup {[NoContextOptions EXCEPT !.tokenBudget = n] : n \in {20, 40}}
    \cup {[NoContextOptions EXCEPT !.minSimilarity = 0]}

\* tokenBudget = options.tokenBudget ?? 300
TokenBudgetOf(options) ==
    IF options.tokenBudget = Undefined THEN DefaultTokenBudget ELSE options.tokenBudget
\* A cut that lets every candidate through.
NoMinSimilarity(options) == 0 - One
\* minSimilarity = options.minSimilarity ?? 0.3
MinSimilarityOf(options) ==
    IF options.minSimilarity = Undefined THEN DefaultMinSimilarity
    ELSE options.minSimilarity

\* The options of the retrieve call getContext makes: { maxResults: 10 }
ContextRetrieveOptions == [NoOptions EXCEPT !.maxResults = 10]

\* estimateTokens: about 4 characters per token, rounded up.
CharsPerToken == 4
EstimateTokens(chars) == (chars + CharsPerToken - 1) \div CharsPerToken

\* candidates.filter(c => c.similarity >= minSimilarity)
RECURSIVE RelevantFrom(_, _, _)
RelevantFrom(candidates, minSimilarity, i) ==
    IF i > Len(candidates) THEN <<>>
    ELSE (IF candidates[i].similarity >= minSimilarity THEN <<candidates[i]>> ELSE <<>>)
         \o RelevantFrom(candidates, minSimilarity, i + 1)

\* A budget loop that skips a candidate that does not fit and goes on.
RECURSIVE SelectedSkipping(_, _, _, _)
SelectedSkipping(relevant, i, tokensUsed, tokenBudget) ==
    IF i > Len(relevant) THEN <<>>
    ELSE LET tokens == EstimateTokens(relevant[i].memory.gist)
         IN  IF tokensUsed + tokens <= tokenBudget
             THEN <<relevant[i]>>
                  \o SelectedSkipping(relevant, i + 1, tokensUsed + tokens, tokenBudget)
             ELSE SelectedSkipping(relevant, i + 1, tokensUsed, tokenBudget)

\* The budget loop from relevant[i] on, tokensUsed being used already: it
\* stops at the first candidate that does not fit.
RECURSIVE Selected(_, _, _, _)
Selected(relevant, i, tokensUsed, tokenBudget) ==
    IF i > Len(relevant) THEN <<>>
    ELSE LET tokens == EstimateTokens(relevant[i].memory.gist)
         IN  IF tokensUsed + tokens <= tokenBudget
             THEN <<relevant[i]>>
                  \o Selected(relevant, i + 1, tokensUsed + tokens, tokenBudget)
             ELSE <<>>

RECURSIVE TokensOf(_, _)
TokensOf(selected, i) ==
    IF i > Len(selected) THEN 0
    ELSE EstimateTokens(selected[i].memory.gist) + TokensOf(selected, i + 1)

\* The summary string: "" or the one that shows the two numbers.
NoSummary == <<>>
SummaryOf(selected, tokensUsed) ==
    IF Len(selected) > 0 THEN <<Len(selected), tokensUsed>> ELSE NoSummary

\* What getContext returns for the candidates its retrieve call returned.
ContextOf(candidates, options) ==
    LET relevant == RelevantFrom(candidates, MinSimilarityOf(options), 1)
        selected == Selected(relevant, 1, 0, TokenBudgetOf(options))
        tokensUsed == TokensOf(selected, 1)
    IN  IF Len(relevant) = 0
        THEN [memories |-> <<>>, summary |-> NoSummary, tokensUsed |-> 0]
        ELSE [memories |-> selected, summary |-> SummaryOf(selected, tokensUsed),
              tokensUsed |-> tokensUsed]

\* getContext after `await this.retrieve(currentTask, { maxResults: 10 })`.
GetContext(options) ==
    /\ ret.op = "retrieve"
    /\ ret.status = "ok"
    /\ ret.options = ContextRetrieveOptions
    /\ ret' = [op |-> "getContext", status |-> "ok", mode |-> ret.mode,
               options |-> options, retrieved |-> ret.results,
               context |-> ContextOf(ret.results, options)]
    /\ UNCHANGED <<clock, storeVars, visualVars, projectVars, locationVars, serverVars, embedder, pc,
                   call>>


(***************************************************************************)
(* LucidRetrieval.processPendingEmbeddings.                                *)
(***************************************************************************)
\* getMemoriesWithoutEmbeddings(batchSize): batchSize of the pending memories,
\* all of them when there are fewer; which ones is the store's choice.
PendingBatches(mems, rows, batchSize) ==
    {S \in SUBSET MemoriesWithoutEmbeddings(mems, rows) :
        Cardinality(S) = Min(batchSize, PendingEmbeddingCount(mems, rows))}

\* The call as it waits for embedBatch: the pending memories it read and the
\* model of the embedder it called.
Suspended(pending, batchSize, origin) ==
    [pending |-> pending, batchSize |-> batchSize, model |-> embedder, origin |-> origin]

\* A storing loop that skips one of the memories.
RECURSIVE StoreAllButOne(_, _, _, _)
StoreAllButOne(rows, ids, vector, model) ==
    IF Cardinality(ids) <= 1 THEN rows
    ELSE LET id == CHOOSE x \in ids : TRUE
         IN  StoreAllButOne({r \in rows : r.memoryId # id}
                                \cup {[memoryId |-> id, vector |-> vector, model |-> model]},
                            ids \ {id}, vector, model)

\* The loop at the end of the call: storeEmbedding for each pending memory.
RECURSIVE StoreBatch(_, _, _, _)
StoreBatch(rows, ids, vector, model) ==
    IF ids = {} THEN rows
    ELSE LET id == CHOOSE x \in ids : TRUE
         IN  StoreBatch(StoreEmbeddingRows(rows, id, vector, model), ids \ {id},
                        vector, model)

BatchReturned(batchSize, pending, value) ==
    [op |-> "processPendingEmbeddings", status |-> "ok", batchSize |-> batchSize,
     pending |-> pending, value |-> value]
BatchRejected == [op |-> "processPendingEmbeddings", status |-> "rejected"]

\* The batch without its i-th call.
Resumed(i) == SubSeq(batch, 1, i - 1) \o SubSeq(batch, i + 1, Len(batch))

\* processPendingEmbeddings(batchSize), up to the await of embedBatch or to
\* its early return of 0.
ProcessPendingEmbeddings(batchSize) ==
    /\ Ready
    /\ \E pending \in PendingBatches(memories, embeddings, batchSize) :
           IF embedder = "none" \/ pending = {}
           THEN /\ ret' = BatchReturned(batchSize, {}, 0)
                /\ UNCHANGED batch
           ELSE /\ Len(batch) < MaxBatch
                /\ batch' = Append(batch, Suspended(pending, batchSize, "call"))
                /\ ret' = NoRet
    /\ UNCHANGED <<clock, storeVars, visualVars, projectVars, locationVars, server, embedder, pc, call>>

\* What the caller of the i-th suspended call sees when the call ends: a
\* direct caller the value or the rejection, the timer callback of the server
\* logs the count or catches the rejection.
BatchEnds(i, result) ==
    IF batch[i].origin = "call"
    THEN /\ ret = NoRet
         /\ ret' = result
         /\ UNCHANGED server
    ELSE /\ batch[i].origin = "tick"
         /\ server.main # "exited"
         /\ server' = [server EXCEPT
                           !.caught = IF result.status = "ok" THEN @ ELSE @ + 1,
                           !.lastTick = IF result.status = "ok" THEN "ok" ELSE "caught"]
         /\ UNCHANGED ret

\* A storeEmbedding that inserts the row whether or not the memory exists.
OwnerAssumed(mems, id) == TRUE

\* storeEmbedding(id, ...) inserts or replaces the row of an existing memory
\* and throws for an id that is not in the memories table.
OwnerExists(mems, id) == id \in DOMAIN mems

\* embedBatch resolves for the i-th suspended call, every vector being vector:
\* the loop stores one embedding per pending memory and the call returns their
\* number. For a memory deleted meanwhile storeEmbedding throws: the call
\* rejects, the embeddings stored before it staying.
EmbedBatchResolves(i, vector) ==
    /\ i \in 1..Len(batch)
    /\ vector \in VectorsOf(batch[i].model)
    /\ LET pending == batch[i].pending
           alive == {id \in pending : OwnerExists(memories, id)}
       IN  IF alive = pending
           THEN /\ embeddings' = StoreBatch(embeddings, pending, vector, batch[i].model)
                /\ BatchEnds(i, BatchReturned(batch[i].batchSize, pending,
                                              Cardinality(pending)))
           ELSE /\ \E stored \in SUBSET alive :
                       embeddings' = StoreBatch(embeddings, stored, vector, batch[i].model)
                /\ BatchEnds(i, BatchRejected)
    /\ batch' = Resumed(i)
    /\ UNCHANGED <<clock, nextId, memories, accessHistory, associations, visualVars, projectVars,
                   locationVars, embedder, pc, call>>

\* What store returns: its memory; caught is what its catch logged.
StoreReturned(id, embedded, caught) ==
    [op |-> "store", status |-> "ok", id |-> id, embedded |-> embedded, caught |-> caught]

\* store(content, {type}), up to the await of embedder.embed, or to its
\* return when there is no embedder.
Store(type) ==
    /\ Ready
    /\ nextId <= MaxMem
    /\ memories' = Upsert(memories, nextId, StoreMemoryRow(type))
    /\ accessHistory' = Upsert(accessHistory, nextId, <<clock>>)
    /\ nextId' = nextId + 1
    /\ IF embedder = "none"
       THEN /\ ret' = StoreReturned(nextId, FALSE, "nothing")
            /\ UNCHANGED batch
       ELSE /\ Len(batch) < MaxBatch
            /\ batch' = Append(batch, Suspended({nextId}, 1, "store"))
            /\ ret' = NoRet
    /\ call' = Interleaved
    /\ UNCHANGED <<clock, embeddings, associations, visualVars, projectVars, locationVars,
                   server, embedder, pc>>

\* embed resolves for the i-th suspended call, a store: the embedding is
\* stored; when storeEmbedding throws the catch logs it, and either way the
\* call returns its memory.
EmbedResolves(i, vector) ==
    /\ i \in 1..Len(batch)
    /\ batch[i].origin = "store"
    /\ vector \in VectorsOf(batch[i].model)
    /\ ret = NoRet
    /\ LET id == CHOOSE x \in batch[i].pending : TRUE
       IN  IF OwnerExists(memories, id)
           THEN /\ embeddings' = StoreEmbeddingRows(embeddings, id, vector, batch[i].model)
                /\ ret' = StoreReturned(id, TRUE, "nothing")
           ELSE /\ UNCHANGED embeddings
                /\ ret' = StoreReturned(id, FALSE, "storeEmbedding")
    /\ batch' = Resumed(i)
    /\ UNCHANGED <<clock, nextId, memories, accessHistory, associations, visualVars,
                   projectVars, locationVars, server, embedder, pc, call>>

\* embed rejects for the i-th suspended call, a store: the catch logs the
\* error and the call returns its memory, which stays pending.
EmbedRejects(i) ==
    /\ i \in 1..Len(batch)
    /\ batch[i].origin = "store"
    /\ ret = NoRet
    /\ ret' = StoreReturned(CHOOSE x \in batch[i].pending : TRUE, FALSE, "embed")
    /\ batch' = Resumed(i)
    /\ UNCHANGED <<clock, storeVars, visualVars, projectVars, locationVars, server, embedder,
                   pc, call>>

\* embedBatch rejects for the i-th suspended call: nothing is stored.
EmbedBatchRejects(i) ==
    /\ i \in 1..Len(batch)
    /\ BatchEnds(i, BatchRejected)
    /\ batch' = Resumed(i)
    /\ UNCHANGED <<clock, storeVars, visualVars, projectVars, locationVars, embedder, pc, call>>

(***************************************************************************)
(* server.ts: start-up, the background processors, tool requests.          *)
(***************************************************************************)
\* The batch size of the background embedding processor.
TickBatchSize == 10
\* The stale threshold of a decay sweep called without arguments.
DefaultStaleDays == 30
DetectOutcomes == {"found", "none", "threw"}

\* main() is called: it awaits initializeEmbeddings, which awaits
\* detectProvider.
Main ==
    /\ server.main = "start"
    /\ server' = [server EXCEPT !.main = "detecting"]
    /\ UNCHANGED <<clock, storeVars, visualVars, projectVars, locationVars, batch, embedder, pc, call, ret>>

\* A main in which a throwing detectProvider is not caught.
AfterDetectUncaught(outcome) == IF outcome = "threw" THEN "exited" ELSE "connecting"

\* Where main goes when detectProvider has settled: initializeEmbeddings
\* catches a throw, so main goes on to connect in every case.
AfterDetect(outcome) == "connecting"

\* detectProvider settles; initializeEmbeddings finishes, main starts both
\* background processors and calls server.connect.
InitializeEmbeddings(outcome, model) ==
    /\ server.main = "detecting"
    /\ embedder' = IF outcome = "found" THEN model ELSE embedder
    /\ server' = [server EXCEPT !.main = AfterDetect(outcome),
                                !.provider = outcome,
                                !.hasSemanticSearch = (outcome = "found"),
                                !.timers = (AfterDetect(outcome) = "connecting")]
    /\ UNCHANGED <<clock, storeVars, visualVars, projectVars, locationVars, batch, pc, call, ret>>

\* server.connect settles: the server is ready for requests, or main rejects
\* and the process exits.
Connect(connected) ==
    /\ server.main = "connecting"
    /\ server' = [server EXCEPT !.main = IF connected THEN "connected" ELSE "exited",
                                !.timers = connected]
    /\ UNCHANGED <<clock, storeVars, visualVars, projectVars, locationVars, batch, embedder, pc, call, ret>>

\* A timer tick may run.
CanTick == server.timers /\ server.main # "exited" /\ server.ticks < MaxTick

\* The server after a tick that ended as outcome.
Ticked(outcome) == [server EXCEPT !.ticks = @ + 1, !.lastTick = outcome]
\* A tick whose exception nothing catches: the process ends.
Uncaught == [server EXCEPT !.ticks = @ + 1, !.main = "exited", !.timers = FALSE]
\* A tick whose work threw: the callback's catch logs the error.
Caught == [server EXCEPT !.ticks = @ + 1, !.caught = @ + 1, !.lastTick = "caught"]

\* The 5 s timer of startBackgroundEmbeddingProcessor fires; the callback runs
\* to its await, or to its end when there is nothing to wait for.
EmbeddingTick(throws) ==
    /\ CanTick
    /\ IF ~server.hasSemanticSearch
       THEN /\ ~throws
            /\ server' = Ticked("skipped")
            /\ UNCHANGED batch
       ELSE IF throws
       THEN /\ server' = Caught
            /\ UNCHANGED batch
       ELSE \E pending \in PendingBatches(memories, embeddings, TickBatchSize) :
                IF embedder = "none" \/ pending = {}
                THEN /\ server' = Ticked("ok")
                     /\ UNCHANGED batch
                ELSE /\ Len(batch) < MaxBatch
                     /\ batch' = Append(batch, Suspended(pending, TickBatchSize, "tick"))
                     /\ server' = Ticked("awaiting")
    /\ UNCHANGED <<clock, storeVars, visualVars, projectVars, locationVars, embedder, pc, call, ret>>

\* The hourly timer of startBackgroundDecayProcessor fires.
DecayTick(throws) ==
    /\ CanTick
    /\ IF throws
       THEN /\ server' = Caught
            /\ UNCHANGED locations
       ELSE /\ locations' = DecayRows(locations, clock, DecayParams(DefaultStaleDays))
            /\ server' = Ticked("ok")
    /\ UNCHANGED <<clock, storeVars, visualVars, projectVars, nextLocationId, locationAssociations,
                   budget, batch, embedder, pc, call, ret>>

\* A tool request arrives over the connected transport: memory_forget.
MemoryForget(memoryId) ==
    /\ server.main = "connected"
    /\ server.requests < MaxRequest
    /\ server' = [server EXCEPT !.requests = @ + 1]
    /\ IF memoryId \in DOMAIN memories
       THEN /\ memories' = Without(memories, {memoryId})
            /\ accessHistory' = Without(accessHistory, {memoryId})
            /\ embeddings' = DeleteMemoryEmbeddings(memoryId)
            /\ associations' = DeleteMemoryAssociations(memoryId)
       ELSE UNCHANGED <<memories, accessHistory, embeddings, associations>>
    /\ UNCHANGED <<clock, nextId, visualVars, projectVars, locationVars, batch, embedder, pc, call, ret>>


(***************************************************************************)
(* The specifications.                                                     *)
(***************************************************************************)
\* The retrieval pipeline over the text store.
Next ==
    \/ Tick
    \/ \E type \in MemoryTypes : StoreMemory(type)
    \/ \E id \in Ids : DeleteMemory(id)
    \/ \E a, b \in Ids, s \in Strengths : Associate(a, b, s)
    \/ \E id \in Ids, e \in EmbeddingResults : StoreEmbedding(id, e.vector, e.model)
    \/ \E m \in ActiveModels : SetEmbeddingConfig(m)
    \/ \E options \in OptionSets, order \in RowOrders(DOMAIN memories) :
           RetrieveFallback(options, order)
    \/ \E order \in RowOrders(DOMAIN memories) : RetrieveCall(order)
    \/ EmbedFails
    \/ \E options \in OptionSets, v \in VectorsOf(embedder) :
           RetrieveResume(options, v)
    \/ Return

Spec == Init /\ [][Next]_vars

\* The embedding lifecycle: migration of the text and the visual space.
NextMigration ==
    \/ \E type \in MemoryTypes : StoreMemory(type)
    \/ \E id \in Ids : DeleteMemory(id)
    \/ \E id \in Ids, e \in EmbeddingResults : StoreEmbedding(id, e.vector, e.model)
    \/ \E m \in ModelTags : DeleteEmbeddingsNotMatching(m)
    \/ StoreVisualMemory
    \/ \E id \in VisualIds, e \in EmbeddingResults :
           StoreVisualEmbedding(id, e.vector, e.model)
    \/ \E m \in ModelTags : DeleteVisualEmbeddingsNotMatching(m)
    \/ Return

SpecMigration == Init /\ [][NextMigration]_vars

\* The storage layer used directly: memories, accesses, associations and
\* embeddings.
NextStore ==
    \/ Tick
    \/ \E type \in MemoryTypes : StoreMemory(type)
    \/ \E id \in Ids : DeleteMemory(id)
    \/ \E id \in Ids : RecordAccess(id)
    \/ \E a, b \in Ids, s \in Strengths : Associate(a, b, s)
    \/ \E a, b \in Ids : Dissociate(a, b)
    \/ \E id \in Ids, e \in EmbeddingResults : StoreEmbedding(id, e.vector, e.model)

SpecStore == Init /\ [][NextStore]_vars

\* Location memory: accesses, pins, decay passes and merges.
LinkSets ==
    {NoLink} \cup {[other |-> o, strength |-> b] : o \in LocationIds, b \in CoAccessStrengths}
StaleDays == 1..MaxStaleDays

NextLocation ==
    \/ \E path \in Paths, link \in LinkSets : RecordFileAccess(path, link)
    \/ \E path \in Paths, pinned \in BOOLEAN : PinLocation(path, pinned)
    \/ \E days \in StaleDays : ApplyFamiliarityDecay(days)
    \/ \E oldPath, newPath \in Paths : MergeLocations(oldPath, newPath)
    \/ Return

SpecLocation == InitLocations(SeedDecays) /\ [][NextLocation]_vars

\* Location memory on which no decay pass runs or has run.
NextLocationGrowth ==
    \/ \E path \in Paths, link \in LinkSets : RecordFileAccess(path, link)
    \/ \E path \in Paths, pinned \in BOOLEAN : PinLocation(path, pinned)
    \/ \E oldPath, newPath \in Paths : MergeLocations(oldPath, newPath)
    \/ Return

SpecLocationGrowth == InitLocations({0}) /\ [][NextLocationGrowth]_vars

\* Decay passes over locations that were accessed once or twice.
NextLocationYoung ==
    \/ \E path \in Paths, link \in LinkSets : RecordFileAccess(path, link)
    \/ \E path \in Paths, pinned \in BOOLEAN : PinLocation(path, pinned)
    \/ \E days \in StaleDays : ApplyFamiliarityDecay(days)
    \/ Return

SpecLocationYoung == InitYoungLocations /\ [][NextLocationYoung]_vars

\* The location tools called with and without a project path.
ToolProjectPaths == ProjectPaths \cup {NoProjectPath}
NextProject ==
    \/ Tick
    \/ \E path \in Paths, projectPath \in ToolProjectPaths : LocationRecord(path, projectPath)
    \/ \E path \in Paths, projectPath \in ToolProjectPaths : LocationGet(path, projectPath)
    \/ Return

SpecProject == Init /\ [][NextProject]_vars

\* Retrieval as getContext and callers with the legacy option use it, on
\* stores without associations.
ContextRetrieveOptionSets == {ContextRetrieveOptions} \cup LegacyOptionSets

NextContext ==
    \/ Tick
    \/ \E type \in MemoryTypes : StoreMemory(type)
    \/ \E id \in Ids, e \in EmbeddingResults : StoreEmbedding(id, e.vector, e.model)
    \/ \E m \in ActiveModels : SetEmbeddingConfig(m)
    \/ \E options \in ContextRetrieveOptionSets, order \in RowOrders(DOMAIN memories) :
           RetrieveFallback(options, order)
    \/ \E order \in RowOrders(DOMAIN memories) : RetrieveCall(order)
    \/ EmbedFails
    \/ \E options \in ContextRetrieveOptionSets, v \in VectorsOf(embedder) :
           RetrieveResume(options, v)
    \/ \E options \in ContextOptionSets : GetContext(options)
    \/ Return

SpecContext == Init /\ [][NextContext]_vars

\* The spreading kernel on every store of three memories.
NextSpreading ==
    \/ \E id \in SpreadIds, v \in SpreadProbes : Spreading(id, v)
    \/ Return

SpecSpreading == InitSpreading /\ [][NextSpreading]_vars

\* The server process, on a store that earlier runs have filled.
NextServer ==
    \/ \E type \in MemoryTypes : server.main = "start" /\ StoreMemory(type)
    \/ \E id \in Ids, e \in EmbeddingResults :
           server.main = "start" /\ StoreEmbedding(id, e.vector, e.model)
    \/ Main
    \/ \E outcome \in DetectOutcomes, model \in ActiveModels :
           InitializeEmbeddings(outcome, model)
    \/ \E connected \in BOOLEAN : Connect(connected)
    \/ \E throws \in BOOLEAN : EmbeddingTick(throws)
    \/ \E throws \in BOOLEAN : DecayTick(throws)
    \/ \E i \in 1..MaxBatch, v \in UNION {VectorsOf(m) : m \in ModelTags} :
           EmbedBatchResolves(i, v)
    \/ \E i \in 1..MaxBatch : EmbedBatchRejects(i)
    \/ \E id \in Ids : MemoryForget(id)

SpecServer == Init /\ [][NextServer]_vars

\* store and processPendingEmbeddings calls suspended at the embedder while
\* memories are deleted.
NextRace ==
    \/ \E m \in ActiveModels : SetEmbeddingConfig(m)
    \/ \E type \in MemoryTypes : Store(type)
    \/ \E batchSize \in 1..MaxBatchSize : ProcessPendingEmbeddings(batchSize)
    \/ \E i \in 1..MaxBatch, v \in UNION {VectorsOf(m) : m \in ModelTags} :
           EmbedResolves(i, v)
    \/ \E i \in 1..MaxBatch : EmbedRejects(i)
    \/ \E i \in 1..MaxBatch, v \in UNION {VectorsOf(m) : m \in ModelTags} :
           EmbedBatchResolves(i, v)
    \/ \E i \in 1..MaxBatch : EmbedBatchRejects(i)
    \/ \E id \in Ids : DeleteMemory(id)
    \/ Return

SpecRace == Init /\ [][NextRace]_vars

\* Regeneration after a model change: while no embedder is configured the
\* store is filled and migrated; once one is, the only calls are
\* processPendingEmbeddings, whose embedder always succeeds.
BatchSizes == 1..MaxBatchSize
Backfill == \E batchSize \in BatchSizes : ProcessPendingEmbeddings(batchSize)
Embedded ==
    \E i \in 1..MaxBatch, v \in UNION {VectorsOf(m) : m \in ModelTags} :
        EmbedBatchResolves(i, v)

NextBackfill ==
    \/ \E type \in MemoryTypes : embedder = "none" /\ StoreMemory(type)
    \/ \E id \in Ids, e \in EmbeddingResults :
           embedder = "none" /\ StoreEmbedding(id, e.vector, e.model)
    \/ \E m \in ModelTags : embedder = "none" /\ DeleteEmbeddingsNotMatching(m)
    \/ \E m \in ActiveModels : embedder = "none" /\ SetEmbeddingConfig(m)
    \/ embedder # "none" /\ Backfill
    \/ Embedded
    \/ Return

\* The caller keeps calling, every embedBatch settles and every return value
\* is delivered.
SpecBackfill ==
    /\ Init
    /\ [][NextBackfill]_vars
    /\ WF_vars(embedder # "none" /\ Backfill)
    /\ WF_vars(Embedded)
    /\ WF_vars(Return)

(***************************************************************************)
(* Properties of LucidRetrieval.retrieve.                                  *)
(***************************************************************************)
\* A step in which a retrieve call returns its list.
RetrieveReturns == ret = NoRet /\ ret'.op = "retrieve" /\ ret'.status = "ok"
\* The state in which a retrieve call has just returned its list.
RetrieveReturned == ret.op = "retrieve" /\ ret.status = "ok"
\* The ids of the memories in a result list.
ReturnedIds(results) == {results[i].memory.id : i \in DOMAIN results}
\* The most recent access of an append-only history.
MostRecent(history) == history[Len(history)]

\* C1: every retrieve call, with an embedder or without one, appends exactly
\* one access record for each memory it returns and none for any other memory.
C1_OneAccessPerReturned ==
    [][RetrieveReturns =>
          \A id \in DOMAIN accessHistory \cup ReturnedIds(ret'.results) :
              /\ id \in DOMAIN accessHistory
              /\ id \in DOMAIN accessHistory'
              /\ Len(accessHistory'[id])
                     = Len(accessHistory[id])
                       + (IF id \in ReturnedIds(ret'.results) THEN 1 ELSE 0)]_vars

\* C2: when an embedder is configured and embedding the probe fails, retrieve
\* does not fail: it returns the base-level ranking.
C2_EmbedFailureFallsBack ==
    ret.op = "retrieve" /\ ret.embedRejected
        => ret.status = "ok" /\ ret.mode = "fallback"

\* C3 as stated: a retrieve call leaves every Memory, Embedding and
\* Association row as it was.
C3_RetrieveModifiesNoRows ==
    [][RetrieveReturns =>
          /\ memories' = memories
          /\ embeddings' = embeddings
          /\ associations' = associations]_vars

\* C3 as amended: a retrieve call leaves every Embedding and Association row
\* as it was, adds and removes no Memory, and changes of a Memory only its
\* access count, which advances by the number of access records the call
\* appended to that memory (none for a memory it did not return).
C3_RetrieveModifiesOnlyAccessCount ==
    [][RetrieveReturns =>
          /\ embeddings' = embeddings
          /\ associations' = associations
          /\ DOMAIN memories' = DOMAIN memories
          /\ \A id \in DOMAIN memories :
                 LET appended == Len(accessHistory'[id]) - Len(accessHistory[id])
                 IN  /\ memories'[id]
                            = [memories[id] EXCEPT !.accessCount = @ + appended]
                     /\ id \notin ReturnedIds(ret'.results) => appended = 0]_vars

\* C3's case: a similarity retrieve has returned one memory and left another
\* out, with embeddings and associations in the store; the returned memory's
\* access count has advanced.
C3_Witness ==
    /\ RetrieveReturned
    /\ ret.mode = "similarity"
    /\ embeddings # {}
    /\ associations # {}
    /\ \E id \in ReturnedIds(ret.results) :
           id \in DOMAIN memories /\ memories[id].accessCount = 2
    /\ \E id \in DOMAIN memories : id \notin ReturnedIds(ret.results)

\* C4: the access records one retrieve call appends all carry the `now` taken
\* at call entry, before the await, which is the `now` the scores were
\* computed with.
C4_SingleEntryTimestamp ==
    RetrieveReturned /\ ret.mode = "similarity" =>
        \A id \in ReturnedIds(ret.results) :
            id \in DOMAIN accessHistory =>
                /\ ret.now = ret.entry
                /\ MostRecent(accessHistory[id]) = ret.entry

\* C5: every candidate retrieve returns has probability >= minProbability,
\* in similarity mode and in the fallback alike.
C5_ReturnedPassFilter ==
    RetrieveReturned =>
        \A i \in DOMAIN ret.results :
            ret.results[i].probability >= ConfigOf(ret.options).minProbability

\* The candidates of the returned call that pass the probability filter.
PassedFilter ==
    {ret.candidates[i] : i \in {j \in DOMAIN ret.candidates :
        ret.candidates[j].probability >= ConfigOf(ret.options).minProbability}}

\* C6: the returned list has at most maxResults entries, is in non-increasing
\* score order, contains no memory twice, and no candidate that passed the
\* filter and was left out has a score strictly higher than a returned one.
C6_TopMaxResults ==
    RetrieveReturned =>
        LET results == ret.results
        IN  /\ Len(results) <= LimitOf(ConfigOf(ret.options))
            /\ \A i \in 1..(Len(results) - 1) : results[i].score >= results[i + 1].score
            /\ \A i, j \in DOMAIN results :
                   results[i].memory.id = results[j].memory.id => i = j
            /\ \A c \in PassedFilter :
                   c.memory.id \notin ReturnedIds(results)
                       => \A i \in DOMAIN results : c.score <= results[i].score

\* C6's case: maxResults cut the list, leaving out a candidate that passed
\* the filter with a score lower than the last returned one.
C6_Witness ==
    /\ RetrieveReturned
    /\ Len(ret.results) = LimitOf(ConfigOf(ret.options))
    /\ \E c \in PassedFilter :
           /\ c.memory.id \notin ReturnedIds(ret.results)
           /\ c.score < ret.results[Len(ret.results)].score

\* What the returning call read from the store before scoring.
RetrieveData == IF pc = "embed" THEN call.data ELSE GetAllForRetrieval(ret'.order)
\* The same rows in another order.
Reordered(data, p) ==
    [memories |-> [i \in 1..Len(p) |-> data.memories[p[i]]],
     accessHistories |-> [i \in 1..Len(p) |-> data.accessHistories[p[i]]]]
\* What the returning call returns when it reads data.
ResultsFrom(data) ==
    LET config == ConfigOf(ret'.options)
    IN  IF pc = "embed"
        THEN Ranked(SimilarityCandidates(data, ret'.options.filterType, call.associations,
                                         GetAllEmbeddings(embeddings), ret'.probeVector,
                                         ret'.now, config),
                    LimitOf(config))
        ELSE Ranked(FallbackCandidates(data, ret'.options.filterType, ret'.now, config),
                    LimitOf(config))
\* The most recent access of the memory id in the data read.
MostRecentIn(data, id) ==
    MostRecent(data.accessHistories[CHOOSE i \in DOMAIN data.memories :
                                        data.memories[i].id = id])

\* C7: candidates of equal score are ordered by more recent most-recent
\* access first and then by id, and the returned list is the same in
\* whichever order the store returns its rows.
C7_DeterministicRanking ==
    [][RetrieveReturns =>
          LET results == ret'.results
              data == RetrieveData
          IN  /\ \A i \in 1..(Len(results) - 1) :
                     results[i].score = results[i + 1].score =>
                         LET a == MostRecentIn(data, results[i].memory.id)
                             b == MostRecentIn(data, results[i + 1].memory.id)
                         IN  \/ a > b
                             \/ a = b /\ results[i].memory.id < results[i + 1].memory.id
              /\ \A p \in RowOrders(DOMAIN data.memories) :
                     ResultsFrom(Reordered(data, p)) = results]_vars

(***************************************************************************)
(* Properties of the embedding lifecycle.                                  *)
(***************************************************************************)
\* A step in which deleteEmbeddingsNotMatching returns.
DeleteReturns == ret = NoRet /\ ret'.op = "deleteEmbeddingsNotMatching"
\* A step in which deleteVisualEmbeddingsNotMatching returns.
DeleteVisualReturns == ret = NoRet /\ ret'.op = "deleteVisualEmbeddingsNotMatching"
\* The rows tagged with the model.
Tagged(rows, model) == {r \in rows : r.model = model}

\* C8: deleteEmbeddingsNotMatching(X) returns what countEmbeddingsNotMatching(X)
\* was before the call; after it countEmbeddingsNotMatching(X) is 0, the
\* pending count is at least the number deleted, and getMemoriesWithoutEmbeddings
\* reports every owner of a deleted row.
C8_MigrationRoundTrip ==
    [][DeleteReturns =>
          /\ ret'.value = CountNotMatching(embeddings, ret'.model)
          /\ CountNotMatching(embeddings', ret'.model) = 0
          /\ PendingEmbeddingCount(memories', embeddings') >= ret'.value
          /\ Owners(NotMatching(embeddings, ret'.model))
                 \subseteq MemoriesWithoutEmbeddings(memories', embeddings')]_vars

\* C8's case: a delete has removed a stale row and kept a matching one.
C8_Witness ==
    /\ ret.op = "deleteEmbeddingsNotMatching"
    /\ ret.value >= 1
    /\ embeddings # {}
    /\ PendingEmbeddingCount(memories, embeddings) >= 1

C10_SpacesIndependent ==
    [][/\ DeleteReturns =>
              /\ Tagged(embeddings', ret'.model) = Tagged(embeddings, ret'.model)
              /\ memories' = memories
              /\ visualMemories' = visualMemories
              /\ visualEmbeddings' = visualEmbeddings
       /\ DeleteVisualReturns =>
              /\ Tagged(visualEmbeddings', ret'.model) = Tagged(visualEmbeddings, ret'.model)
              /\ memories' = memories
              /\ embeddings' = embeddings]_vars

\* C10's case: a text migration has removed a stale text row and kept a
\* matching one while the visual space holds a row of the other model.
C10_Witness ==
    /\ ret.op = "deleteEmbeddingsNotMatching"
    /\ ret.value >= 1
    /\ Tagged(embeddings, ret.model) # {}
    /\ \E r \in visualEmbeddings : r.model # ret.model

(***************************************************************************)
(* Properties of the storage layer.                                        *)
(***************************************************************************)
\* The rows of the ordered pair (a, b).
PairRows(rows, a, b) == {r \in rows : r.sourceId = a /\ r.targetId = b}

\* C11: after deleteMemory(m), getMemory(m) is null, no association has m as
\* source or target, m has no embedding and no tag's stale count includes
\* it; every other memory, embedding and association is as it was.
C11_DeleteCascades ==
    [][\A m \in Ids : DeleteMemory(m) =>
          /\ m \notin DOMAIN memories'
          /\ GetAssociations(associations', m) = {}
          /\ \A o \in DOMAIN memories' :
                 \A r \in GetAssociations(associations', o) :
                     r.sourceId # m /\ r.targetId # m
          /\ GetEmbeddingIsNull(embeddings', m)
          /\ \A X \in ModelTags :
                 CountNotMatching(embeddings', X)
                     = Cardinality({r \in embeddings : r.memoryId # m /\ r.model # X})
          /\ \A o \in DOMAIN memories \ {m} :
                 o \in DOMAIN memories' /\ memories'[o] = memories[o]
          /\ {r \in embeddings : r.memoryId # m} \subseteq embeddings'
          /\ {r \in associations : r.sourceId # m /\ r.targetId # m}
                 \subseteq associations']_vars

\* C11's case: a memory has been deleted (two ids were handed out, one
\* memory is left) and the survivor still has its embedding.
C11_Witness ==
    /\ nextId = 3
    /\ Cardinality(DOMAIN memories) = 1
    /\ \E id \in DOMAIN memories : ~GetEmbeddingIsNull(embeddings, id)

\* C12: each existing memory has at least one access record and an
\* accessCount equal to the number of its records, and a memory's history
\* only grows by appends: earlier records stay and accessCount never
\* decreases.
C12_AccessHistoryAppendOnly ==
    /\ [](\A id \in DOMAIN memories :
              /\ id \in DOMAIN accessHistory
              /\ Len(accessHistory[id]) >= 1
              /\ memories[id].accessCount = Len(accessHistory[id]))
    /\ [][\A id \in DOMAIN memories \cap DOMAIN memories' :
              /\ Len(accessHistory'[id]) >= Len(accessHistory[id])
              /\ SubSeq(accessHistory'[id], 1, Len(accessHistory[id])) = accessHistory[id]
              /\ memories'[id].accessCount >= memories[id].accessCount]_vars

\* C12's case: a retrieve has appended a second, later record to a memory.
C12_Witness ==
    /\ ret.op = "retrieve"
    /\ \E id \in DOMAIN memories :
           /\ Len(accessHistory[id]) = 2
           /\ accessHistory[id][1] < accessHistory[id][2]
           /\ memories[id].accessCount = 2

\* C13: there is at most one edge per ordered pair; a new or changed edge
\* arises only from associate(a, b, s), after which the pair's one edge has
\* strength s, and dissociate(a, b) removes the pair's edge, both leaving
\* every other edge as it was; getAssociations(m) lists every edge of which m
\* is the source or the target.
C13_AssociateUpserts ==
    /\ [](/\ \A r, q \in associations :
                 r.sourceId = q.sourceId /\ r.targetId = q.targetId => r = q
          /\ \A r \in associations :
                 /\ r \in GetAssociations(associations, r.sourceId)
                 /\ r \in GetAssociations(associations, r.targetId))
    /\ [][/\ \A a, b \in Ids, s \in Strengths : Associate(a, b, s) =>
                 /\ PairRows(associations', a, b)
                        = {[sourceId |-> a, targetId |-> b, strength |-> s]}
                 /\ associations' \ PairRows(associations', a, b)
                        = associations \ PairRows(associations, a, b)
          /\ \A a, b \in Ids : Dissociate(a, b) =>
                 /\ PairRows(associations', a, b) = {}
                 /\ associations' = associations \ PairRows(associations, a, b)
          /\ \A r \in associations' \ associations :
                 \E a, b \in Ids, s \in Strengths :
                     /\ Associate(a, b, s)
                     /\ r = [sourceId |-> a, targetId |-> b, strength |-> s]]_vars

\* C13's case: associate(2, 1, 0.9) has acted: the edge (2, 1) exists with
\* strength 0.9 and getAssociations lists it for both of its endpoints.
C13_Witness ==
    \E r \in associations :
        /\ r.sourceId = 2 /\ r.targetId = 1 /\ r.strength = 900
        /\ r \in GetAssociations(associations, 1)
        /\ r \in GetAssociations(associations, 2)

\* The last operation was applyFamiliarityDecay.
DecayReturns == ret.op = "applyFamiliarityDecay"

\* C14: applyFamiliarityDecay is idempotent on an idle store: a second pass
\* right after a pass would change no location and report 0 changed.
C14_DecayIdempotent ==
    [][\A days \in StaleDays : ApplyFamiliarityDecay(days) =>
          /\ DecayRows(locations', clock', DecayParams(days)) = locations'
          /\ ChangedCount(locations',
                          DecayRows(locations', clock', DecayParams(days))) = 0]_vars

\* C15: a decay pass leaves pinned locations and locations that are not stale
\* as they are; every other location gets the familiarity
\* max(floor, familiarity * (1 - 0.1)), the floor being 0.4 if its
\* familiarity ever exceeded 0.8 and 0.1 otherwise, and nothing else of it
\* changes; the pass returns the number of locations whose familiarity changed.
C15_DecayRule ==
    [][\A days \in StaleDays : ApplyFamiliarityDecay(days) =>
          /\ DOMAIN locations' = DOMAIN locations
          /\ locationAssociations' = locationAssociations
          /\ \A id \in DOMAIN locations :
                 LET row == locations[id]
                     floor == IF row.peak > 800 THEN 400 ELSE 100
                 IN  IF row.pinned \/ clock - row.lastAccessed < days * DayMs
                     THEN locations'[id] = row
                     ELSE locations'[id] =
                              [row EXCEPT !.familiarity =
                                   Max(floor, (row.familiarity * 900) \div 1000)]
          /\ ret'.value = Cardinality({id \in DOMAIN locations :
                              locations'[id].familiarity # locations[id].familiarity})]_vars

\* A pass has just changed one location, taking a once well-known one down to
\* the floor 0.4, while a pinned one of the same history and a freshly accessed
\* one kept their familiarity.
C15_Witness ==
    /\ DecayReturns
    /\ ret.value = 1
    /\ \E a, b, c \in DOMAIN locations :
           /\ locations[a].pinned /\ locations[a].familiarity = 432
           /\ ~locations[b].pinned /\ locations[b].peak > StickyThreshold
           /\ locations[b].familiarity = StickyFloor
           /\ ~locations[c].pinned /\ locations[c].lastAccessed = clock
           /\ locations[c].familiarity = FamiliarityCurve(1)

\* The last operation was mergeLocations.
MergeReturns == ret.op = "mergeLocations"

\* C16: mergeLocations(old, new) with neither path known returns nothing and
\* changes nothing; with only old known it renames that location, keeping its
\* access count, familiarity and associations; with both known the location at
\* new gets the sum of the access counts, the larger familiarity, the contexts
\* of both and the union of the associations, the strength of a pair both had
\* being the sum capped at 1.0. Whenever a location is returned, no location
\* has the path old.
C16_MergeCases ==
    [][\A oldPath, newPath \in Paths : MergeLocations(oldPath, newPath) =>
          LET olds == {id \in DOMAIN locations : locations[id].path = oldPath}
              news == {id \in DOMAIN locations : locations[id].path = newPath}
          IN  /\ (olds = {} /\ news = {}) =>
                     /\ ret'.value = 0
                     /\ locations' = locations
                     /\ locationAssociations' = locationAssociations
              /\ (olds # {} /\ news = {}) =>
                     \E o \in olds :
                         /\ ret'.value = o
                         /\ locations' = [locations EXCEPT ![o].path = newPath]
                         /\ locationAssociations' = locationAssociations
              /\ (olds # {} /\ news # {}) =>
                     \E o \in olds, n \in news :
                         /\ ret'.value = n
                         /\ locations'[n].path = newPath
                         /\ locations'[n].accessCount
                                = locations[o].accessCount + locations[n].accessCount
                         /\ locations'[n].familiarity
                                = Max(locations[o].familiarity, locations[n].familiarity)
                         /\ locations'[n].contexts
                                = locations[o].contexts + locations[n].contexts
                         /\ \A x \in DOMAIN locations \ {o, n} :
                                /\ x \in DOMAIN locations' /\ locations'[x] = locations[x]
                                /\ StrengthOf(locationAssociations', n, x)
                                       = Min(One, StrengthOf(locationAssociations, o, x)
                                                  + StrengthOf(locationAssociations, n, x))
                                /\ StrengthOf(locationAssociations', x, n)
                                       = Min(One, StrengthOf(locationAssociations, x, o)
                                                  + StrengthOf(locationAssociations, x, n))
                         /\ \A r \in locationAssociations :
                                (r.sourceId # o /\ r.targetId # o /\ r.sourceId # n
                                 /\ r.targetId # n) => r \in locationAssociations'
                         /\ \A r \in locationAssociations' :
                                /\ r.sourceId # o /\ r.targetId # o
                                /\ \E q \in locationAssociations :
                                       /\ q.sourceId \in {r.sourceId, o}
                                       /\ q.targetId \in {r.targetId, o}
              /\ ret'.value # 0 =>
                     /\ ret'.value \in DOMAIN locations'
                     /\ \A id \in DOMAIN locations' : locations'[id].path # oldPath]_vars

\* A merge of two known locations has just returned: the result has the 47
\* accesses and contexts of the two, the familiarity of the more familiar one,
\* and an edge to a third location whose strength is the capped sum of the two
\* edges the merged locations had.
C16_Witness ==
    /\ MergeReturns
    /\ ret.value \in DOMAIN locations
    /\ locations[ret.value].accessCount = 47
    /\ locations[ret.value].contexts = 47
    /\ locations[ret.value].familiarity = FamiliarityCurve(45)
    /\ \E r \in locationAssociations :
           r.sourceId = ret.value /\ r.strength = One
    /\ Cardinality(locationAssociations) = 1

\* C17: with no decay pass, after any recordFileAccess and mergeLocations
\* calls every location's familiarity is 1 - 1/(1 + 0.1 * access_count), it
\* lies in [0, 1), and an access never lowers it.
C17_FamiliarityOnCurve ==
    /\ [](\A id \in DOMAIN locations :
              /\ locations[id].familiarity
                     = (One * locations[id].accessCount)
                           \div (locations[id].accessCount + 10)
              /\ locations[id].familiarity >= 0
              /\ locations[id].familiarity < One)
    /\ [][\A path \in Paths, link \in LinkSets : RecordFileAccess(path, link) =>
              \A id \in DOMAIN locations :
                  locations'[id].familiarity >= locations[id].familiarity]_vars

\* C18: the server handles no tool request before initializeEmbeddings has
\* resolved; initializeEmbeddings resolves whether a provider was found, none
\* was found or detection threw, and in the last two cases the server goes on
\* to connect without semantic search and without an embedder.
C18_InitializedBeforeRequests ==
    /\ [](/\ server.requests > 0 => server.provider \in DetectOutcomes
          /\ server.main \in {"start", "detecting"} <=> server.provider = "unknown"
          /\ server.provider \in {"none", "threw"} =>
                 ~server.hasSemanticSearch /\ embedder = "none"
          /\ server.provider = "found" => server.hasSemanticSearch /\ embedder # "none")
    /\ [][/\ server'.requests # server.requests =>
                 server.main = "connected" /\ server.provider \in DetectOutcomes
          /\ (server.main = "detecting" /\ server'.main # "detecting") =>
                 server'.main = "connecting" /\ server'.provider \in DetectOutcomes
          /\ (server.main = "connecting" /\ server'.main = "connected") =>
                 server'.provider = server.provider]_vars

\* Detection threw, and the server is connected and has handled a request
\* with recency-only retrieval.
C18_Witness ==
    /\ server.provider = "threw"
    /\ server.main = "connected"
    /\ server.requests > 0
    /\ ~server.hasSemanticSearch
    /\ embedder = "none"

\* C19: an exception thrown in a background embedding batch or in a decay
\* sweep is caught within that tick: it is counted, the server neither exits
\* nor loses its timers, and further ticks can run; the server exits only
\* when connecting fails, never in a tick.
C19_TickExceptionsCaught ==
    /\ [][/\ server'.caught # server.caught =>
              /\ server'.caught = server.caught + 1
              /\ server'.ticks = server.ticks + 1 \/ server'.lastTick = "caught"
              /\ server'.main = server.main
              /\ server'.main # "exited"
              /\ server'.timers
          /\ (server'.main = "exited" /\ server.main # "exited") =>
                 server.main = "connecting" /\ server'.ticks = server.ticks]_vars
    /\ []((server.caught > 0 /\ server.timers /\ server.ticks < MaxTick) =>
              /\ ENABLED DecayTick(FALSE)
              /\ ENABLED EmbeddingTick(FALSE) \/ Len(batch) = MaxBatch)

\* Two exceptions of background ticks have been caught, and the tick after
\* them ran to its end on the connected server.
C19_Witness ==
    /\ server.caught = 2
    /\ server.ticks = 3
    /\ server.lastTick = "ok"
    /\ server.main = "connected"
    /\ server.hasSemanticSearch
    /\ batch = <<>>

\* The last operation was a processPendingEmbeddings that returned.
BackfillReturns == ret.op = "processPendingEmbeddings"
\* The stale embeddings are gone and the embedder tags its vectors X.
Migrated(X) == embedder = X /\ CountNotMatching(embeddings, X) = 0
\* Nothing is pending and nothing is stale.
Regenerated(X) ==
    PendingEmbeddingCount(memories, embeddings) = 0 /\ CountNotMatching(embeddings, X) = 0

\* C20: after a migration, with an embedder that always succeeds and tags its
\* vectors X and no memory stored meanwhile, every processPendingEmbeddings(b)
\* call takes min(b, pending) distinct pending memories and, when it returns,
\* has stored an embedding tagged X for each of them and returns their number;
\* eventually nothing is pending and nothing is stale; from then on a call
\* returns 0 and changes nothing.
C20_BackfillTerminates ==
    /\ \A X \in ActiveModels : Migrated(X) ~> Regenerated(X)
    /\ [](\A X \in ActiveModels : Migrated(X) =>
              \A i \in 1..Len(batch) :
                  /\ batch[i].model = X
                  /\ batch[i].pending \subseteq DOMAIN memories
                  /\ batch[i].pending # {})
    /\ [][\A X \in ActiveModels : Migrated(X) =>
              /\ \A b \in BatchSizes : ProcessPendingEmbeddings(b) =>
                     LET pending == MemoriesWithoutEmbeddings(memories, embeddings)
                         n == IF b < Cardinality(pending) THEN b ELSE Cardinality(pending)
                     IN  /\ embeddings' = embeddings /\ memories' = memories
                         /\ IF n = 0
                            THEN ret'.value = 0 /\ batch' = batch
                            ELSE /\ Len(batch') = Len(batch) + 1
                                 /\ batch'[Len(batch')].pending \subseteq pending
                                 /\ Cardinality(batch'[Len(batch')].pending) = n
              /\ Embedded =>
                     /\ BackfillReturns'
                     /\ ret'.status = "ok"
                     /\ ret'.value = Cardinality(ret'.pending)
                     /\ ret'.value >= 1
                     /\ \A id \in ret'.pending :
                            \E r \in embeddings' : r.memoryId = id /\ r.model = X
                     /\ \A r \in embeddings :
                            r.memoryId \notin ret'.pending => r \in embeddings'
                     /\ Owners(embeddings') = Owners(embeddings) \cup ret'.pending
                     /\ Migrated(X)'
              /\ (Regenerated(X) /\ batch = <<>>) =>
                     /\ embeddings' = embeddings /\ memories' = memories /\ batch' = batch
                     /\ BackfillReturns' => ret'.value = 0]_vars

\* Two memories were pending after the migration; a call with batch size 1
\* has just embedded one of them and returned 1, and the other is still
\* pending.
C20_Witness ==
    /\ BackfillReturns
    /\ ret.value = 1
    /\ ret.batchSize = 1
    /\ Cardinality(DOMAIN memories) = 2
    /\ PendingEmbeddingCount(memories, embeddings) = 1
    /\ embedder \in ActiveModels
    /\ Migrated(embedder)
    /\ batch = <<>>

\* The last operation was a getContext that returned.
ContextReturns == ret.op = "getContext"
\* The token estimates of the candidates cs[i..], summed.
RECURSIVE SumTokens(_, _)
SumTokens(cs, i) ==
    IF i > Len(cs) THEN 0 ELSE (cs[i].memory.gist + 3) \div 4 + SumTokens(cs, i + 1)

HistoryRead(id) ==
    LET i == CHOOSE k \in 1..Len(call.data.memories) : call.data.memories[k].id = id
    IN  call.data.accessHistories[i]

\* C22: when two candidates have equal similarity to the probe, equal access
\* histories and no associations, retrieve ranks the one with the higher
\* emotional weight first.
C22_EmotionalWeightRanks ==
    [][(pc = "embed" /\ ret'.op = "retrieve" /\ ret'.status = "ok") =>
          \A i, j \in 1..Len(ret'.results) :
              LET a == ret'.results[i]
                  b == ret'.results[j]
              IN  (/\ i < j
                   /\ a.similarity = b.similarity
                   /\ HistoryRead(a.memory.id) = HistoryRead(b.memory.id)
                   /\ call.associations = {})
                  => a.memory.emotionalWeight >= b.memory.emotionalWeight]_vars

\* C23: a retrieve call given the legacy option limit = n and no maxResults
\* returns at most n candidates.
C23_LimitIsAlias ==
    (/\ RetrieveReturned
     /\ ret.options.limit # Absent
     /\ ret.options.maxResults = Absent)
    => Len(ret.results) <= ret.options.limit

\* C25: a getContext call reinforces only the memories it returns: a memory
\* that its retrieve call ranked and getContext then drops, for its
\* similarity or for the token budget, gains no access record.
C25_ContextReinforcesReturned ==
    [][(ret'.op = "retrieve" /\ ret'.status = "ok" /\ ret.op = "none"
        /\ ret'.options = ContextRetrieveOptions) =>
          \A options \in ContextOptionSets :
              \A id \in DOMAIN accessHistory :
                  accessHistory'[id] # accessHistory[id] =>
                      id \in ReturnedIds(ContextOf(ret'.results, options).memories)]_vars

\* C28: with no embedder configured, getContext with default options returns
\* no memory, an empty summary and tokensUsed = 0, whatever the store holds:
\* every candidate of the fallback has similarity 0, below the cut 0.3.
C28_FallbackContextEmpty ==
    (ContextReturns /\ ret.mode = "fallback" /\ ret.options = NoContextOptions) =>
        /\ \A i \in 1..Len(ret.retrieved) : ret.retrieved[i].similarity = 0
        /\ ret.context.memories = <<>>
        /\ ret.context.summary = <<>>
        /\ ret.context.tokensUsed = 0

\* No embedder is configured, the retrieve call of a getContext with default
\* options ranked both stored memories, and getContext has returned.
C28_Witness ==
    /\ ContextReturns
    /\ ret.mode = "fallback"
    /\ ret.options = NoContextOptions
    /\ embedder = "none"
    /\ Len(ret.retrieved) = 2

\* The last operation was a computeSpreadingActivation that returned.
SpreadingReturns == ret.op = "computeSpreadingActivation" /\ ret.status = "ok"
\* The edges of E that have m as source or target.
Incident(E, m) == {e \in E : e.sourceId = m \/ e.targetId = m}
\* What the edge e adds to the spread of m: its strength times the similarity
\* of the probe to the other endpoint's embedding, 0 if that is negative or
\* the endpoint has no embedding.
Contribution(e, m, probe) ==
    LET o == IF e.sourceId = m THEN e.targetId ELSE e.sourceId
        rows == {r \in embeddings : r.memoryId = o}
    IN  IF rows = {} THEN 0
        ELSE LET sim == CosineSimilarity(probe, (CHOOSE r \in rows : TRUE).vector)
             IN  IF sim > 0 THEN Quot(e.strength * sim, One) ELSE 0
RECURSIVE ContributionSum(_, _, _)
ContributionSum(E, m, probe) ==
    IF E = {} THEN 0
    ELSE LET e == CHOOSE x \in E : TRUE
         IN  Contribution(e, m, probe) + ContributionSum(E \ {e}, m, probe)
\* The spread of m when the association table is E.
SpreadWith(E, m, probe) ==
    ComputeSpreadingActivation(m, E, GetAllEmbeddings(embeddings), probe)

\* C24: the spreading activation of m is the sum, over the edges that have m
\* as source or target, of strength * max(0, cosine(probe, embedding of the
\* other endpoint)), divided by the number of those edges; an edge whose other
\* endpoint has no embedding adds 0 and still counts in the divisor; with no
\* such edge the value is 0; an edge that does not touch m, added, removed or
\* of another strength, does not change the value.
C24_SpreadingOneHop ==
    SpreadingReturns =>
        LET m == ret.memoryId
            incident == Incident(associations, m)
        IN  /\ incident = {} => ret.value = 0
            /\ incident # {} =>
                   ret.value = Quot(ContributionSum(incident, m, ret.probeVector),
                                    Cardinality(incident))
            /\ \A e \in SpreadEdges :
                   (e.sourceId # m /\ e.targetId # m) =>
                       /\ SpreadWith(associations \cup {e}, m, ret.probeVector) = ret.value
                       /\ SpreadWith(associations \ {e}, m, ret.probeVector) = ret.value
                       /\ SpreadWith({r \in associations :
                                         r.sourceId # e.sourceId \/ r.targetId # e.targetId}
                                     \cup {e}, m, ret.probeVector) = ret.value

\* Memory 1 has three edges, in both directions: to memory 2, whose embedding
\* is the probe, and to memory 3, which has none; the spread is
\* (0.9 + 0.5 + 0) / 3 = 0.466.
C24_Witness ==
    /\ SpreadingReturns
    /\ ret.memoryId = 1
    /\ ret.probeVector = <<1, 0>>
    /\ associations = {[sourceId |-> 1, targetId |-> 2, strength |-> 900],
                       [sourceId |-> 2, targetId |-> 1, strength |-> 500],
                       [sourceId |-> 3, targetId |-> 1, strength |-> 900]}
    /\ \E r \in embeddings : r.memoryId = 2 /\ r.vector = <<1, 0>>
    /\ \A r \in embeddings : r.memoryId # 3
    /\ ret.value = 466

\* C27: the batches started by the 5 s timer never overlap: while the batch
\* of one tick waits for the embedder no other tick's batch waits with it, so
\* no pending memory is read and embedded by two batches at once.
C27_TickBatchesNeverOverlap ==
    \A i, j \in 1..Len(batch) :
        (i # j /\ batch[i].origin = "tick" /\ batch[j].origin = "tick") =>
            batch[i].pending \cap batch[j].pending = {}

\* C30: a decay pass never increases the familiarity of a location, one that
\* is below its floor included: after applyFamiliarityDecay every location's
\* familiarity is at most what it was before.
C30_DecayNeverIncreases ==
    [][\A days \in StaleDays : ApplyFamiliarityDecay(days) =>
          \A id \in DOMAIN locations :
              locations'[id].familiarity <= locations[id].familiarity]_vars

\* C29: a query-only tool called with a projectPath creates no project: the
\* projects table is the same before and after the call, also for a path that
\* no project has yet.
C29_QueryCreatesNoProject ==
    [][\A path \in Paths, projectPath \in ToolProjectPaths :
           LocationGet(path, projectPath) => projects' = projects]_vars

====
